---------------------------- MODULE Spec2Model ----------------------------
(***************************************************************************)
(* Verification model of the T-NOVA connector (5GExchange/tnova_connector). *)
(*                                                                         *)
(* Components modelled:                                                    *)
(*   - Tag Allocator     TNOVAConverter.__process_tag and its register     *)
(*   - Namespace Manager NFFGConverter._gen_unique_*_id / recreate_*_id    *)
(*   - Flow Codec        NFFGConverter._convert_flowrule_match/_action,    *)
(*                       field_splitter and the flow-entry parse           *)
(*   - Converter         dump_to_Virtualizer / parse_from_Virtualizer      *)
(*                                                                         *)
(* Python strings are modelled as sequences of one-character strings, so   *)
(* that splitting, prefix tests, number formatting and number parsing are  *)
(* computed the way the code computes them.                                *)
(***************************************************************************)
EXTENDS Integers, Sequences, FiniteSets, TLC

VARIABLES
  \* Tag Allocator
  vlan_register,   \* TNOVAConverter.vlan_register: tag_id -> VLAN id
  calls,           \* log of the completed __process_tag calls, in order:
                   \* [aid, ns, val, hit] (hit: answered from the register)
  tpc,             \* concurrent requests: position of each thread
  tkey,            \* concurrent requests: [aid, ns] of the running call
  tcand,           \* concurrent requests: VLAN id chosen, not yet stored
  \* Namespace Manager
  conv,            \* NFFGConverter: [domain, unique_bb_id, unique_nf_id]
  nsop,            \* the id being generated and recreated:
                   \* [kind, id, bb, gen, back, pc]
  life,            \* the life of the converter: [disabled (was
                   \* disable_unique_bb_id called), nf_mode (unique_nf_id
                   \* at construction), gen_unique / gen_after (nsop.gen
                   \* was generated in unique mode / after the call),
                   \* back_after (nsop.back was recreated after the call)]
  \* Flow Codec
  fc,              \* the flow rule being converted:
                   \* [pc, rule, dump, back, split]
  \* Converter
  rt,              \* the graph being dumped and parsed back:
                   \* [pc, graph, tree, back]
  \* Reconstructor
  sb,              \* the single-BiSBiS tree being parsed and the SG hops
                   \* recreated from its flow rules: [pc, tree, graph, hops]
  \* Service requests
  sr,              \* the service request being converted on a base tree:
                   \* [pc, op, heap, base, given, delete, request, old,
                   \* raised, ret, frag]
  \* External ports
  xp,              \* the flow entries with external references being
                   \* parsed: [pc, flowtable, graph]
  \* Connector and ServiceManager
  sm,              \* the connector with its ServiceManager
  \* Port attributes
  vp               \* the abstract port being parsed: [pc, v_port, port]

tagVars == <<vlan_register, calls, tpc, tkey, tcand>>

nsVars == <<conv, nsop, life>>

fcVars == <<fc>>

rtVars == <<rt>>

sbVars == <<sb>>

srVars == <<sr>>

xpVars == <<xp>>

smVars == <<sm>>

vpVars == <<vp>>

vars == <<tagVars, nsVars, fcVars, rtVars, sbVars, srVars, xpVars, smVars,
         vpVars>>

\* The variables of the other components.
notTagVars == <<nsVars, fcVars, rtVars, sbVars, srVars, xpVars,
   smVars, vpVars>>

notNsVars == <<tagVars, fcVars, rtVars, sbVars, srVars, xpVars,
   smVars, vpVars>>

notFcVars == <<tagVars, nsVars, rtVars, sbVars, srVars, xpVars,
   smVars, vpVars>>

notRtVars == <<tagVars, nsVars, fcVars, sbVars, srVars, xpVars,
   smVars, vpVars>>

notSbVars == <<tagVars, nsVars, fcVars, rtVars, srVars, xpVars,
   smVars, vpVars>>

notSrVars == <<tagVars, nsVars, fcVars, rtVars, sbVars, xpVars,
   smVars, vpVars>>

notXpVars == <<tagVars, nsVars, fcVars, rtVars, sbVars, srVars, smVars,
   vpVars>>

notSmVars == <<tagVars, nsVars, fcVars, rtVars, sbVars, srVars, xpVars,
   vpVars>>

notVpVars == <<tagVars, nsVars, fcVars, rtVars, sbVars, srVars, xpVars,
   smVars>>

(***************************************************************************)
(* Python string helpers                                                   *)
(***************************************************************************)

\* None of Python, where the other values are integers.
NoneV == -1

\* None of Python, where the other values are strings.
NoneS == <<"<None>">>

DigitChars == <<"0", "1", "2", "3", "4", "5", "6", "7", "8", "9">>

HexChars == <<"0", "1", "2", "3", "4", "5", "6", "7", "8", "9",
              "a", "b", "c", "d", "e", "f">>

IsDigit(c) == \E i \in 1..10 : DigitChars[i] = c

IsHexDigit(c) == \E i \in 1..16 : HexChars[i] = c

HexVal(c) == (CHOOSE i \in 1..16 : HexChars[i] = c) - 1

Range(f) == {f[x] : x \in DOMAIN f}

Min(S) == CHOOSE x \in S : \A y \in S : x <= y

\* Value of the digit string s in the given base (every character of s is
\* a digit of that base).
RECURSIVE BaseVal(_, _)
BaseVal(s, base) ==
  IF Len(s) = 0 THEN 0
  ELSE BaseVal(SubSeq(s, 1, Len(s) - 1), base) * base + HexVal(s[Len(s)])

AllDigits(s) == Len(s) > 0 /\ \A i \in 1..Len(s) : IsDigit(s[i])

AllHexDigits(s) == Len(s) > 0 /\ \A i \in 1..Len(s) : IsHexDigit(s[i])

AllOctDigits(s) ==
  Len(s) > 0 /\ \A i \in 1..Len(s) : IsDigit(s[i]) /\ HexVal(s[i]) < 8

\* str(n) / "%s" % n for a non-negative integer n.
RECURSIVE Dec(_)
Dec(n) == IF n < 10 THEN <<DigitChars[n + 1]>>
          ELSE Dec(n \div 10) \o <<DigitChars[(n % 10) + 1]>>

\* str(n) for an integer n.
Str(n) == IF n < 0 THEN <<"-">> \o Dec(0 - n) ELSE Dec(n)

\* Hexadecimal digits of a non-negative integer n.
RECURSIVE Hex(_)
Hex(n) == IF n < 16 THEN <<HexChars[n + 1]>>
          ELSE Hex(n \div 16) \o <<HexChars[(n % 16) + 1]>>

\* s.startswith(p)
StartsWith(s, p) == Len(s) >= Len(p) /\ SubSeq(s, 1, Len(p)) = p

\* The text holds the part as a run of consecutive characters.
HasInfix(s, part) ==
  \E i \in 0..(Len(s) - Len(part)) : SubSeq(s, i + 1, i + Len(part)) = part

\* c in s
Contains(s, c) == \E i \in 1..Len(s) : s[i] = c

\* Position of the first / last occurrence of the character c in s, 0 if none.
FirstIndex(s, c) ==
  IF Contains(s, c) THEN Min({i \in 1..Len(s) : s[i] = c}) ELSE 0

LastIndex(s, c) ==
  IF Contains(s, c)
    THEN CHOOSE i \in 1..Len(s) :
           s[i] = c /\ \A j \in (i + 1)..Len(s) : s[j] # c
    ELSE 0

\* s.split(c): the list of the pieces of s between the occurrences of c.
RECURSIVE Split(_, _)
Split(s, c) ==
  LET i == FirstIndex(s, c)
  IN IF i = 0 THEN <<s>>
     ELSE <<SubSeq(s, 1, i - 1)>> \o Split(SubSeq(s, i + 1, Len(s)), c)

\* s.split(c, 1)
Split1(s, c) ==
  LET i == FirstIndex(s, c)
  IN IF i = 0 THEN <<s>>
     ELSE <<SubSeq(s, 1, i - 1), SubSeq(s, i + 1, Len(s))>>

\* s.rsplit(c, 1)
RSplit1(s, c) ==
  LET i == LastIndex(s, c)
  IN IF i = 0 THEN <<s>>
     ELSE <<SubSeq(s, 1, i - 1), SubSeq(s, i + 1, Len(s))>>

\* c.join(parts)
RECURSIVE Join(_, _)
Join(parts, c) ==
  IF Len(parts) = 0 THEN <<>>
  ELSE IF Len(parts) = 1 THEN parts[1]
  ELSE parts[1] \o <<c>> \o Join(Tail(parts), c)

\* int(s): an optional sign followed by decimal digits, ValueError otherwise
\* (ok = FALSE).
PyInt(s) ==
  IF AllDigits(s) THEN [ok |-> TRUE, val |-> BaseVal(s, 10)]
  ELSE IF Len(s) > 1 /\ s[1] = "-" /\ AllDigits(Tail(s))
    THEN [ok |-> TRUE, val |-> 0 - BaseVal(Tail(s), 10)]
  ELSE IF Len(s) > 1 /\ s[1] = "+" /\ AllDigits(Tail(s))
    THEN [ok |-> TRUE, val |-> BaseVal(Tail(s), 10)]
  ELSE [ok |-> FALSE, val |-> 0]

\* int(s, base=0) of Python 2 for an unsigned literal: 0x.. is hexadecimal,
\* 0.. is octal, decimal otherwise; ValueError (ok = FALSE) for anything
\* else.
PyInt0U(s) ==
  IF Len(s) > 2 /\ s[1] = "0" /\ s[2] = "x" /\ AllHexDigits(SubSeq(s, 3, Len(s)))
    THEN [ok |-> TRUE, val |-> BaseVal(SubSeq(s, 3, Len(s)), 16)]
  ELSE IF Len(s) > 1 /\ s[1] = "0" /\ AllOctDigits(Tail(s))
    THEN [ok |-> TRUE, val |-> BaseVal(Tail(s), 8)]
  ELSE IF AllDigits(s) /\ (Len(s) = 1 \/ s[1] # "0")
    THEN [ok |-> TRUE, val |-> BaseVal(s, 10)]
  ELSE [ok |-> FALSE, val |-> 0]

\* int(s, base=0): an optional sign followed by such a literal.
PyInt0(s) ==
  IF Len(s) > 1 /\ s[1] = "-"
    THEN [ok |-> PyInt0U(Tail(s)).ok, val |-> 0 - PyInt0U(Tail(s)).val]
  ELSE IF Len(s) > 1 /\ s[1] = "+" THEN PyInt0U(Tail(s))
  ELSE PyInt0U(s)

\* format(n, '#06x'): sign, "0x" and the hexadecimal digits, zero-padded to
\* six characters in all.
Format06x(n) ==
  LET digits == Hex(IF n < 0 THEN 0 - n ELSE n)
      width == IF n < 0 THEN 3 ELSE 4
      pad == [i \in 1..(IF Len(digits) < width THEN width - Len(digits) ELSE 0)
                |-> "0"]
  IN (IF n < 0 THEN <<"-">> ELSE <<>>) \o <<"0", "x">> \o pad \o digits

\* re.search(r'\d+$', s): the longest run of digits that ends s.
TrailerNum(s) ==
  IF Len(s) = 0 \/ ~IsDigit(s[Len(s)]) THEN [ok |-> FALSE, val |-> 0]
  ELSE LET start == Min({i \in 1..Len(s) :
                           \A j \in i..Len(s) : IsDigit(s[j])})
       IN [ok |-> TRUE, val |-> BaseVal(SubSeq(s, start, Len(s)), 10)]

(***************************************************************************)
(* Tag Allocator: TNOVAConverter.__process_tag                             *)
(***************************************************************************)

\* Upper reserved VLAN id of the candidate checks: 0 < vlan_id < 4095.
VLAN_RESERVED == 4095

\* End of the range scanned for a free VLAN id: xrange(1, 4094).
VLAN_SCAN_END == 4094

\* Bounds of the allocator model.
MaxCalls == 3

\* Number of keys registered before the first modelled call in the
\* specification that starts from a nearly exhausted register.
Prefilled == 4092

\* Link ids (vld_id) of the virtual links, as rendered by "%s".
AbstractIds == { <<"a">>, <<"5">>, <<"b", "7">> }

\* Ids of the network services (ns.id).
NsIds == { <<"n", "s">>, <<"n", "7">>,
           <<"n", "4", "0", "9", "4">>, <<"n", "4", "0", "9", "5">> }

\* Abstract id and service id of the i-th call made before the first
\* modelled call in the specification with a nearly exhausted register: a
\* link id without a number, so that the call takes the first free id of
\* the scan.
PadAbstractId(i) == <<"p">> \o Dec(i)

PadNsId == <<"p", "a", "d">>

\* tag_id = "%s-%s" % (abstract_id, ns_id)
TagId(abstract_id, ns_id) == abstract_id \o <<"-">> \o ns_id

(***************************************************************************)
(* The dict vlan_register is held as a record: named is the dict           *)
(* restricted to the keys of the modelled calls, and pad is the number of  *)
(* entries TagId(PadAbstractId(i), PadNsId) -> i, i in 1..pad, that the    *)
(* dict holds besides them.                                                *)
(***************************************************************************)
IsPadKey(reg, tag_id) ==
  LET body == SubSeq(tag_id, 2, Len(tag_id) - Len(PadNsId) - 1)
  IN /\ AllDigits(body)
     /\ BaseVal(body, 10) \in 1..reg.pad
     /\ tag_id = TagId(PadAbstractId(BaseVal(body, 10)), PadNsId)

\* Mutation: the lookup misses the entries of the modelled calls.
Registered_Mut(reg, tag_id) == IsPadKey(reg, tag_id)

\* tag_id in self.vlan_register (the early return of __process_tag)
Registered(reg, tag_id) ==
  tag_id \in DOMAIN reg.named \/ IsPadKey(reg, tag_id)

\* self.vlan_register[tag_id]
RegisterGet(reg, tag_id) ==
  IF tag_id \in DOMAIN reg.named THEN reg.named[tag_id]
  ELSE BaseVal(SubSeq(tag_id, 2, Len(tag_id) - Len(PadNsId) - 1), 10)

\* self.vlan_register[tag_id] = v
RegisterSet(reg, tag_id, v) ==
  [reg EXCEPT !.named = (tag_id :> v) @@ reg.named]

\* v in self.vlan_register.itervalues()
Taken(reg, v) == v \in Range(reg.named) \/ v \in 1..reg.pad

\* Mutation: the reserved ids 0 and 4095 are accepted.
VlanValid_Mut(v) == 0 <= v /\ v <= VLAN_RESERVED

\* 0 < vlan_id < 4095
VlanValid(v) == 0 < v /\ v < VLAN_RESERVED

\* xrange(1, 4094)
ScanRange == 1..(VLAN_SCAN_END - 1)

\* The VLAN id that __process_tag chooses for a tag_id that is not in the
\* register (NoneV when the scan finds no free id).
Candidate(reg, tag_id) ==
  LET asint   == PyInt(tag_id)
      trailer == TrailerNum(tag_id)
  IN IF asint.ok /\ VlanValid(asint.val) /\ ~Taken(reg, asint.val)
       THEN asint.val
     ELSE IF trailer.ok /\ VlanValid(trailer.val) /\ ~Taken(reg, trailer.val)
       THEN trailer.val
     ELSE IF \E v \in ScanRange : ~Taken(reg, v)
       THEN CHOOSE v \in ScanRange :
              ~Taken(reg, v) /\ \A w \in 1..(v - 1) : Taken(reg, w)
     ELSE NoneV

\* __process_tag(abstract_id, ns_id) run without interruption: the returned
\* value and the register after the call.
ProcessTag(reg, abstract_id, ns_id) ==
  LET tag_id == TagId(abstract_id, ns_id)
  IN IF Registered(reg, tag_id)
       THEN [ret |-> RegisterGet(reg, tag_id), reg |-> reg, hit |-> TRUE]
     ELSE LET v == Candidate(reg, tag_id)
          IN IF v = NoneV
               THEN [ret |-> NoneV, reg |-> reg, hit |-> FALSE]
               ELSE [ret |-> v, reg |-> RegisterSet(reg, tag_id, v),
                     hit |-> FALSE]

Threads == {1, 2}

InitTagCommon ==
  /\ calls = <<>>
  /\ tpc = [t \in Threads |-> "idle"]
  /\ tkey = [t \in Threads |-> [aid |-> <<>>, ns |-> <<>>]]
  /\ tcand = [t \in Threads |-> NoneV]

\* TNOVAConverter.__init__: self.vlan_register = {}
InitTag ==
  /\ vlan_register = [named |-> <<>>, pad |-> 0]
  /\ InitTagCommon

\* The register after Prefilled calls for links without a number in their
\* tag_id: the i-th call took the i-th VLAN id of the scan.
InitTagFull ==
  /\ vlan_register = [named |-> <<>>, pad |-> Prefilled]
  /\ InitTagCommon

Returned(abstract_id, ns_id, v, h) ==
  Append(calls, [aid |-> abstract_id, ns |-> ns_id, val |-> v, hit |-> h])

\* One call of __process_tag from __convert_sg_hops, run to completion.
Allocate(abstract_id, ns_id) ==
  /\ Len(calls) < MaxCalls
  /\ LET r == ProcessTag(vlan_register, abstract_id, ns_id)
     IN /\ vlan_register' = r.reg
        /\ calls' = Returned(abstract_id, ns_id, r.ret, r.hit)
  /\ UNCHANGED <<tpc, tkey, tcand, notTagVars>>

AllocateAny == \E a \in AbstractIds, n \in NsIds : Allocate(a, n)

(***************************************************************************)
(* Two HTTP requests converting NSDs with the one TNOVAConverter of the    *)
(* process: __process_tag takes no lock, so a request can be preempted     *)
(* between the test "not in self.vlan_register.itervalues()" and the       *)
(* assignment self.vlan_register[tag_id] = vlan.                           *)
(***************************************************************************)

Running == {t \in Threads : tpc[t] # "idle"}

\* Lines 268-308: look the tag_id up and choose the VLAN id.
TagBegin(t, abstract_id, ns_id) ==
  /\ tpc[t] = "idle"
  /\ Len(calls) + Cardinality(Running) < MaxCalls
  /\ LET tag_id == TagId(abstract_id, ns_id)
         v      == Candidate(vlan_register, tag_id)
     IN IF Registered(vlan_register, tag_id)
          THEN /\ calls' = Returned(abstract_id, ns_id,
                                    RegisterGet(vlan_register, tag_id), TRUE)
               /\ UNCHANGED <<tpc, tkey, tcand>>
        ELSE IF v = NoneV
          THEN /\ calls' = Returned(abstract_id, ns_id, NoneV, FALSE)
               /\ UNCHANGED <<tpc, tkey, tcand>>
        ELSE /\ tpc' = [tpc EXCEPT ![t] = "store"]
             /\ tkey' = [tkey EXCEPT ![t] = [aid |-> abstract_id,
                                             ns |-> ns_id]]
             /\ tcand' = [tcand EXCEPT ![t] = v]
             /\ UNCHANGED calls
  /\ UNCHANGED <<vlan_register, notTagVars>>

\* Lines 279, 296, 309 and the return: store the chosen VLAN id.
TagStore(t) ==
  /\ tpc[t] = "store"
  /\ vlan_register' = RegisterSet(vlan_register,
                                  TagId(tkey[t].aid, tkey[t].ns), tcand[t])
  /\ calls' = Returned(tkey[t].aid, tkey[t].ns, tcand[t], FALSE)
  /\ tpc' = [tpc EXCEPT ![t] = "idle"]
  /\ UNCHANGED <<tkey, tcand, notTagVars>>

TagBeginAny ==
  \E t \in Threads, a \in AbstractIds, n \in NsIds : TagBegin(t, a, n)

TagStoreAny == \E t \in Threads : TagStore(t)

(***************************************************************************)
(* Tag Allocator: properties                                               *)
(***************************************************************************)

SameKey(c, d) == c.aid = d.aid /\ c.ns = d.ns

\* A call has just returned: the step appended it to the log.
CallReturns == Len(calls') = Len(calls) + 1

NewCall == calls'[Len(calls')]

\* C1: every value returned by a tag allocation is None or lies in 1..4094,
\* and two calls of one scope (ns_id) with different abstract ids never
\* return the same value.
C1_DistinctInRange ==
  \A i \in 1..Len(calls) :
    calls[i].val # NoneV =>
      /\ calls[i].val \in 1..(VLAN_RESERVED - 1)
      /\ \A j \in 1..Len(calls) :
           (calls[j].ns = calls[i].ns /\ calls[j].aid # calls[i].aid)
             => calls[j].val # calls[i].val

\* Two links of one service got their VLAN ids, one of them the highest id.
C1_Witness ==
  \E i, j \in 1..Len(calls) :
    /\ calls[i].ns = calls[j].ns /\ calls[i].aid # calls[j].aid
    /\ calls[i].val = VLAN_RESERVED - 1
    /\ calls[j].val # NoneV

\* C2: a call with a pair (abstract_id, ns_id) that an earlier call
\* allocated returns the value of the first such call and leaves the
\* register as it is.
C2_CachedReinvoke ==
  [][CallReturns =>
       \A i \in 1..Len(calls) :
         (SameKey(calls[i], NewCall) /\ calls[i].val # NoneV)
           => (NewCall.val = calls[i].val /\ vlan_register' = vlan_register)
    ]_vars

\* A pair is allocated, another pair is allocated after it, and the first
\* pair is asked for again.
C2_Witness ==
  \E i, j, k \in 1..Len(calls) :
    /\ i < j /\ j < k
    /\ SameKey(calls[i], calls[k]) /\ ~SameKey(calls[i], calls[j])
    /\ calls[i].val # NoneV /\ calls[j].val # NoneV /\ ~calls[j].hit

\* C3: in no interleaving do two allocations with different keys obtain the
\* same VLAN id.
C3_MutualExclusion ==
  \A i, j \in 1..Len(calls) :
    (TagId(calls[i].aid, calls[i].ns) # TagId(calls[j].aid, calls[j].ns)
       /\ calls[i].val # NoneV)
      => calls[i].val # calls[j].val

\* The checks of __process_tag on the number in tag_id give no usable VLAN id.
NoUsableCandidate(reg, tag_id) ==
  /\ ~(PyInt(tag_id).ok /\ PyInt(tag_id).val \in 1..(VLAN_RESERVED - 1)
         /\ ~Taken(reg, PyInt(tag_id).val))
  /\ ~(TrailerNum(tag_id).ok
         /\ TrailerNum(tag_id).val \in 1..(VLAN_RESERVED - 1)
         /\ ~Taken(reg, TrailerNum(tag_id).val))

Untaken(reg) == {v \in 1..(VLAN_RESERVED - 1) : ~Taken(reg, v)}

\* C4: a call returns None only when every value of 1..4094 is taken; a
\* call with a new key returns a value whenever one of 1..4094 is untaken,
\* and the smallest untaken one when tag_id gives no usable candidate.
C4_NoneOnlyWhenExhausted ==
  [][CallReturns =>
       /\ NewCall.val = NoneV => Untaken(vlan_register) = {}
       /\ (~NewCall.hit /\ Untaken(vlan_register) # {})
            => NewCall.val # NoneV
       /\ (~NewCall.hit /\ Untaken(vlan_register) # {}
             /\ NoUsableCandidate(vlan_register,
                                  TagId(NewCall.aid, NewCall.ns)))
            => NewCall.val = Min(Untaken(vlan_register))
    ]_vars

\* The register after the calls of the log before the k-th call that
\* belong to the scope ns_id, made on the register reg one after the other.
RECURSIVE ScopeRegister(_, _, _, _)
ScopeRegister(reg, log, k, ns_id) ==
  IF k <= 1 THEN reg
  ELSE LET before == ScopeRegister(reg, log, k - 1, ns_id)
       IN IF log[k - 1].ns = ns_id
            THEN ProcessTag(before, log[k - 1].aid, ns_id).reg
            ELSE before

\* C18: the value that a call returns for (abstract_id, scope A) is the
\* value that it returns when no allocation for another scope was made
\* before it.
C18_ScopedPerRequest ==
  \A k \in 1..Len(calls) :
    calls[k].val =
      ProcessTag(ScopeRegister([named |-> <<>>, pad |-> 0], calls, k,
                               calls[k].ns),
                 calls[k].aid, calls[k].ns).ret

\* The number is a VLAN id that no key holds.
Usable(reg, n) == n.ok /\ n.val \in 1..(VLAN_RESERVED - 1) /\ ~Taken(reg, n.val)

\* C19: a call with a new key returns abstract_id if that is an integer of
\* 1..4094 that no other key holds; otherwise it returns the number of the
\* decimal run at the end of abstract_id if that lies in 1..4094 and no
\* other key holds it.
C19_CandidatesFromAbstractId ==
  [][(CallReturns /\ ~NewCall.hit) =>
       LET asint == PyInt(NewCall.aid)
           trailer == TrailerNum(NewCall.aid)
       IN /\ Usable(vlan_register, asint) => NewCall.val = asint.val
          /\ (~Usable(vlan_register, asint) /\ Usable(vlan_register, trailer))
               => NewCall.val = trailer.val
    ]_vars

(***************************************************************************)
(* Namespace Manager: _gen_unique_bb_id, _gen_unique_nf_id,                *)
(* recreate_bb_id, recreate_nf_id                                          *)
(***************************************************************************)

UNIQUE_ID_DELIMITER == "@"

\* Truth value of a Python string or None.
Truthy(s) == s # NoneS /\ s # <<>>

\* _gen_unique_bb_id(v_node) for a node with the given id.
GenUniqueBbId(c, node_id) ==
  IF c.unique_bb_id /\ Truthy(c.domain)
    THEN node_id \o <<UNIQUE_ID_DELIMITER>> \o c.domain
    ELSE node_id

\* _gen_unique_nf_id(v_vnf, bb_id) for an NF with the given id under the
\* node parent_id; bb_id = NoneS stands for the default bb_id=None.
GenUniqueNfId(c, nf_id, bb_id, parent_id) ==
  IF c.unique_nf_id
    THEN nf_id \o <<UNIQUE_ID_DELIMITER>> \o
           (IF bb_id = NoneS THEN GenUniqueBbId(c, parent_id) ELSE bb_id)
    ELSE nf_id

\* recreate_bb_id(id)
RecreateBbId(c, id) ==
  IF c.unique_bb_id THEN RSplit1(id, UNIQUE_ID_DELIMITER)[1] ELSE id

\* Mutation: the id is cut at the last delimiter, as recreate_bb_id does.
RecreateNfId_Mut(c, id) ==
  IF c.unique_nf_id THEN RSplit1(id, UNIQUE_ID_DELIMITER)[1] ELSE id

\* recreate_nf_id(id)
RecreateNfId(c, id) ==
  IF c.unique_nf_id THEN Split1(id, UNIQUE_ID_DELIMITER)[1] ELSE id

\* Ids of infra nodes and of NFs, and domain names of the converter.
NodeIds == { <<"b", "b">>, <<"b", "1">>, <<"a", "@", "b">> }

NfIds == { <<"n", "f">>, <<"n", "@", "f">> }

Domains == { NoneS, <<>>, <<"d">>, <<"d", "@", "e">> }

NsIdle == [kind |-> "none", id |-> <<>>, bb |-> NoneS, gen |-> <<>>,
           back |-> <<>>, pc |-> "idle"]

\* A converter right after its construction.
NewLife(c) == [disabled |-> FALSE, nf_mode |-> c.unique_nf_id,
               gen_unique |-> FALSE, gen_after |-> FALSE,
               back_after |-> FALSE]

\* Mutation: both unique-id modes are switched off.
DisabledUniqueBbId_Mut(c) ==
  [c EXCEPT !.unique_bb_id = FALSE, !.unique_nf_id = FALSE]

\* self.__unique_bb_id = False
DisabledUniqueBbId(c) == [c EXCEPT !.unique_bb_id = FALSE]

\* NFFGConverter.__init__ with its default arguments.
InitNsDefault ==
  /\ conv = [domain |-> NoneS, unique_bb_id |-> FALSE, unique_nf_id |-> FALSE]
  /\ nsop = NsIdle
  /\ life = NewLife(conv)

\* NFFGConverter.__init__(domain, unique_bb_id, unique_nf_id)
InitNs ==
  /\ conv \in [domain : Domains, unique_bb_id : BOOLEAN,
               unique_nf_id : BOOLEAN]
  /\ nsop = NsIdle
  /\ life = NewLife(conv)

\* A node id is made unique while a tree is parsed.
GenBb(node_id) ==
  /\ nsop.pc # "gen"
  /\ nsop' = [kind |-> "bb", id |-> node_id, bb |-> NoneS,
              gen |-> GenUniqueBbId(conv, node_id), back |-> <<>>,
              pc |-> "gen"]
  /\ life' = [life EXCEPT !.gen_unique = conv.unique_bb_id,
                          !.gen_after = life.disabled, !.back_after = FALSE]
  /\ UNCHANGED <<conv, notNsVars>>

\* An NF id is made unique while a tree is parsed; the owning infra id is
\* passed (as generated for the node) or left out.
GenNf(nf_id, parent_id, with_bb) ==
  /\ nsop.pc # "gen"
  /\ LET bb_id == IF with_bb THEN GenUniqueBbId(conv, parent_id) ELSE NoneS
     IN nsop' = [kind |-> "nf", id |-> nf_id, bb |-> bb_id,
                 gen |-> GenUniqueNfId(conv, nf_id, bb_id, parent_id),
                 back |-> <<>>, pc |-> "gen"]
  /\ life' = [life EXCEPT !.gen_unique = conv.unique_bb_id,
                          !.gen_after = life.disabled, !.back_after = FALSE]
  /\ UNCHANGED <<conv, notNsVars>>

\* The generated id is turned back while a graph is dumped.
Recreate ==
  /\ nsop.pc = "gen"
  /\ nsop' = [nsop EXCEPT
                !.back = IF nsop.kind = "bb" THEN RecreateBbId(conv, nsop.gen)
                         ELSE RecreateNfId(conv, nsop.gen),
                !.pc = "back"]
  /\ life' = [life EXCEPT !.back_after = life.disabled]
  /\ UNCHANGED <<conv, notNsVars>>

\* disable_unique_bb_id(), at any point of the converter's life; the ids
\* generated so far stay where they are.
DisableUniqueBbId ==
  /\ conv' = DisabledUniqueBbId(conv)
  /\ life' = [life EXCEPT !.disabled = TRUE]
  /\ UNCHANGED <<nsop, notNsVars>>

GenBbAny == \E id \in NodeIds : GenBb(id)

GenNfAny == \E id \in NfIds, p \in NodeIds, w \in BOOLEAN : GenNf(id, p, w)

NextNs == GenBbAny \/ GenNfAny \/ Recreate

NextNsLife == GenBbAny \/ GenNfAny \/ Recreate \/ DisableUniqueBbId

(***************************************************************************)
(* Flow Codec: _convert_flowrule_match, _convert_flowrule_action,          *)
(* field_splitter and the match/action parse of a flow entry               *)
(***************************************************************************)

OP_TAG == <<"T", "A", "G">>

OP_UNTAG == <<"U", "N", "T", "A", "G">>

OP_INPORT == <<"i", "n", "_", "p", "o", "r", "t">>

OP_OUTPUT == <<"o", "u", "t", "p", "u", "t">>

OP_FLOWCLASS == <<"f", "l", "o", "w", "c", "l", "a", "s", "s">>

GENERAL_OPERATIONS == {OP_INPORT, OP_OUTPUT, OP_TAG, OP_UNTAG, OP_FLOWCLASS}

MATCH_TAG == <<"d", "l", "_", "t", "a", "g">>

ACTION_PUSH_TAG == <<"p", "u", "s", "h", "_", "t", "a", "g">>

ACTION_POP_TAG == <<"p", "o", "p", "_", "t", "a", "g">>

SAP_NAME_PREFIX == <<"S", "A", "P">>

TYPE_VIRTUALIZER_PORT_SAP == "port-sap"

TYPE_VIRTUALIZER_PORT_ABSTRACT == "port-abstract"

LABEL_DELIMITER == "|"

OP_DELIMITER == ";"

KV_DELIMITER == "="

\* seq[-1]
Last(seq) == seq[Len(seq)]

\* The concatenation of a list of lists.
RECURSIVE Flatten(_)
Flatten(lists) ==
  IF Len(lists) = 0 THEN <<>> ELSE lists[1] \o Flatten(Tail(lists))

\* The loop over the tokens: every turn F appends a list of strings to ret;
\* raised: one of the turns raised an exception.
Collect(parts, F(_)) ==
  LET turns == [i \in 1..Len(parts) |-> F(parts[i])]
  IN [raised |-> \E i \in 1..Len(parts) : turns[i].raised,
      ret |-> Flatten([i \in 1..Len(parts) |-> turns[i].ret])]

\* Mutation: a token with an unsupported key ends the conversion.
MatchToken_Mut(kv) ==
  LET op == Split1(kv, KV_DELIMITER)
  IN IF op[1] \notin GENERAL_OPERATIONS THEN [raised |-> TRUE, ret |-> <<>>]
     ELSE [raised |-> FALSE, ret |-> <<>>]

\* Mutation: the VLAN id is written in decimal digits.
MatchDlTag_Mut(vlan_tag) == MATCH_TAG \o <<"=">> \o <<"0", "x">> \o Dec(vlan_tag)

\* "%s=%s" % (MATCH_TAG, format(vlan_tag, '#06x'))
MatchDlTag(vlan_tag) == MATCH_TAG \o <<"=">> \o Format06x(vlan_tag)

\* One turn of the loop of _convert_flowrule_match.
MatchToken(kv) ==
  LET op == Split1(kv, KV_DELIMITER)
  IN IF op[1] \notin GENERAL_OPERATIONS THEN [raised |-> FALSE, ret |-> <<>>]
     ELSE IF op[1] = OP_TAG
       THEN IF Len(op) < 2 THEN [raised |-> TRUE, ret |-> <<>>]
            ELSE LET vlan_tag == PyInt(Last(Split(op[2], LABEL_DELIMITER)))
                 IN IF vlan_tag.ok
                      THEN [raised |-> FALSE, ret |-> <<MatchDlTag(vlan_tag.val)>>]
                      ELSE [raised |-> FALSE, ret |-> <<>>]
     ELSE IF op[1] = OP_FLOWCLASS
       THEN IF Len(op) < 2 THEN [raised |-> TRUE, ret |-> <<>>]
            ELSE [raised |-> FALSE, ret |-> <<op[2]>>]
     ELSE [raised |-> FALSE, ret |-> <<>>]

\* _convert_flowrule_match(match): [raised, val], val = NoneS for None.
ConvertFlowruleMatch(match) ==
  LET match_part == Split(match, OP_DELIMITER)
  IN IF Len(match_part) < 2 THEN [raised |-> FALSE, val |-> NoneS]
     ELSE LET r == Collect(match_part, MatchToken)
          IN [raised |-> r.raised, val |-> Join(r.ret, OP_DELIMITER)]

\* Mutation: the VLAN id is written in decimal digits.
ActionPushTag_Mut(vlan) == ACTION_PUSH_TAG \o <<":">> \o <<"0", "x">> \o Dec(vlan)

\* "%s:%s" % (ACTION_PUSH_TAG, format(vlan, '#06x'))
ActionPushTag(vlan) == ACTION_PUSH_TAG \o <<":">> \o Format06x(vlan)

\* One turn of the loop of _convert_flowrule_action.
ActionToken(kv) ==
  LET op == Split(kv, KV_DELIMITER)
  IN IF op[1] \notin GENERAL_OPERATIONS THEN [raised |-> FALSE, ret |-> <<kv>>]
     ELSE IF op[1] = OP_TAG
       THEN IF Len(op) < 2 THEN [raised |-> TRUE, ret |-> <<>>]
            ELSE LET vlan == PyInt(Last(Split(op[2], LABEL_DELIMITER)))
                 IN IF vlan.ok
                      THEN [raised |-> FALSE, ret |-> <<ActionPushTag(vlan.val)>>]
                      ELSE [raised |-> FALSE, ret |-> <<>>]
     ELSE IF op[1] = OP_UNTAG THEN [raised |-> FALSE, ret |-> <<ACTION_POP_TAG>>]
     ELSE [raised |-> FALSE, ret |-> <<>>]

\* _convert_flowrule_action(action): [raised, val], val = NoneS for None.
ConvertFlowruleAction(action) ==
  LET action_part == Split(action, OP_DELIMITER)
  IN IF Len(action_part) < 2 THEN [raised |-> FALSE, val |-> NoneS]
     ELSE LET r == Collect(action_part, ActionToken)
          IN [raised |-> r.raised, val |-> Join(r.ret, OP_DELIMITER)]

TYPE_MATCH == "MATCH"

TYPE_ACTION == "ACTION"

\* The keys of the dict returned by field_splitter.
SplitKeys == {"in_port", "vlan_id", "vlan_push", "out", "flowclass", "vlan_pop"}

\* One turn of the loop of field_splitter: the key set in ret and its
\* value, or an exception.
SplitPart(type, part) ==
  LET kv == Split1(part, KV_DELIMITER)
      set(k, v) == [raised |-> FALSE, key |-> k, val |-> v]
      raise == [raised |-> TRUE, key |-> "", val |-> NoneS]
  IN IF Len(kv) # 2
       THEN IF kv[1] = OP_UNTAG /\ type = TYPE_ACTION
              THEN set("vlan_pop", <<"T", "r", "u", "e">>)
              ELSE raise
     ELSE IF kv[1] = OP_INPORT
       THEN set("in_port", IF PyInt(kv[2]).ok THEN Str(PyInt(kv[2]).val)
                           ELSE kv[2])
     ELSE IF kv[1] = OP_TAG
       THEN IF type = TYPE_MATCH
              THEN set("vlan_id", Last(Split(kv[2], LABEL_DELIMITER)))
              ELSE set("vlan_push", Last(Split(kv[2], LABEL_DELIMITER)))
     ELSE IF kv[1] = OP_OUTPUT THEN set("out", kv[2])
     ELSE IF kv[1] = OP_FLOWCLASS /\ type = TYPE_MATCH
       THEN set("flowclass", kv[2])
     ELSE raise

\* field_splitter(type, field): [raised, ret]; ret[k] = NoneS for a key
\* that is not in the dict.
FieldSplitter(type, field) ==
  LET parts == Split(field, OP_DELIMITER)
      turns == [i \in 1..Len(parts) |-> SplitPart(type, parts[i])]
      sets(k) == {i \in 1..Len(parts) : turns[i].key = k}
      latest(k) == CHOOSE i \in sets(k) : \A j \in sets(k) : j <= i
  IN [raised |-> \E i \in 1..Len(parts) : turns[i].raised,
      ret |-> [k \in SplitKeys |->
                 IF sets(k) = {} THEN NoneS ELSE turns[latest(k)].val]]

(***************************************************************************)
(* The infra node that carries the flow rules: ports 1 (abstract), 2 (a    *)
(* local SAP) and 3 (an inter-domain SAP), and the NF nf with port 1.      *)
(***************************************************************************)

BB_ID == <<"b", "b">>

NF_ID == <<"n", "f">>

NF_PORT_ID == <<"1">>

\* v_node.ports: port id -> [port_type, name, sap]
VPorts ==
  (<<"1">> :> [port_type |-> TYPE_VIRTUALIZER_PORT_ABSTRACT,
               name |-> NoneS, sap |-> NoneS]) @@
  (<<"2">> :> [port_type |-> TYPE_VIRTUALIZER_PORT_SAP,
               name |-> <<"S", "A", "P", ":", "s", "2">>, sap |-> NoneS]) @@
  (<<"3">> :> [port_type |-> TYPE_VIRTUALIZER_PORT_SAP,
               name |-> NoneS, sap |-> <<"s", "x">>])

\* The tree node of the flow rules: [id, ports, nfs] with the ids of its NF
\* instances, each of which has the port NF_PORT_ID.
VNode == [id |-> BB_ID, ports |-> VPorts, nfs |-> {NF_ID}]

\* Id of the port of the infra node that the dynamic link to the port of
\* the NF nf_id starts at, as the parse of the NF names it.
DynPortIdOf(c, node_id, nf_id) ==
  Join(<<GenUniqueBbId(c, node_id),
         GenUniqueNfId(c, nf_id, GenUniqueBbId(c, node_id), node_id),
         NF_PORT_ID>>, LABEL_DELIMITER)

DynPortId(c) == DynPortIdOf(c, BB_ID, NF_ID)

\* A port reference of a flow entry: a port of the node or of an NF.
NodePort(id) == [nf |-> NoneS, id |-> id]

NfPort(nf_id, id) == [nf |-> nf_id, id |-> id]

NoPort == [nf |-> NoneS, id |-> NoneS]

\* The port that an in_port / output value of a flow rule denotes: a port
\* of the node, or else the NF port at the other end of the dynamic link
\* from the infra port of that id; NoPort if there is none.
ResolvePort(c, v_node, port) ==
  IF port \in DOMAIN v_node.ports THEN NodePort(port)
  ELSE IF \E nf \in v_node.nfs : port = DynPortIdOf(c, v_node.id, nf)
    THEN LET nf == CHOOSE nf \in v_node.nfs :
                     port = DynPortIdOf(c, v_node.id, nf)
         IN NfPort(RecreateNfId(c, GenUniqueNfId(c, nf,
                                    GenUniqueBbId(c, v_node.id), v_node.id)),
                   NF_PORT_ID)
  ELSE NoPort

NoEntry == [port |-> NoPort, match |-> NoneS, out |-> NoPort, action |-> NoneS]

\* The body of the flow rule loop of _convert_nffg_flowrules for the rule
\* fr = [match, action]: status "ok" with the flow entry added, "skipped"
\* or "raised".
ConvertNffgFlowrule(c, v_node, fr) ==
  LET skip == [status |-> "skipped", entry |-> NoEntry]
      raise == [status |-> "raised", entry |-> NoEntry]
      mfirst == Split(Split(fr.match, OP_DELIMITER)[1], KV_DELIMITER)
      afirst == Split(Split(fr.action, OP_DELIMITER)[1], KV_DELIMITER)
      match == ConvertFlowruleMatch(fr.match)
      action == ConvertFlowruleAction(fr.action)
  IN IF mfirst[1] # OP_INPORT THEN skip
     ELSE IF Len(mfirst) < 2 THEN raise
     ELSE IF ResolvePort(c, v_node, mfirst[2]) = NoPort THEN skip
     ELSE IF match.raised THEN raise
     ELSE IF afirst[1] # OP_OUTPUT THEN skip
     ELSE IF Len(afirst) < 2 THEN raise
     ELSE IF ResolvePort(c, v_node, afirst[2]) = NoPort THEN skip
     ELSE IF action.raised THEN raise
     ELSE [status |-> "ok",
           entry |-> [port |-> ResolvePort(c, v_node, mfirst[2]),
                      match |-> match.val,
                      out |-> ResolvePort(c, v_node, afirst[2]),
                      action |-> action.val]]

\* The text after in_port= / output= for a port reference of a flow entry.
PortText(c, v_node, ref) ==
  IF ref.nf # NoneS
    THEN Join(<<GenUniqueBbId(c, v_node.id),
                GenUniqueNfId(c, ref.nf, GenUniqueBbId(c, v_node.id),
                              v_node.id),
                ref.id>>, LABEL_DELIMITER)
    ELSE ref.id

\* _src_name / _dst_name: the label that stands for a port in a TAG.
PortLabel(v_node, ref) ==
  IF ref.nf # NoneS THEN ref.nf
  ELSE LET v_port == v_node.ports[ref.id]
       IN IF v_port.port_type = TYPE_VIRTUALIZER_PORT_SAP
            THEN IF Truthy(v_port.sap) THEN v_port.sap
                 ELSE IF v_port.name # NoneS
                         /\ StartsWith(v_port.name, SAP_NAME_PREFIX)
                   THEN SubSeq(v_port.name, Len(SAP_NAME_PREFIX) + 2,
                               Len(v_port.name))
                 ELSE v_port.name
          ELSE v_node.id

\* ";TAG=<src>|<dst>|<tag>"
TagToken(v_node, entry, tag) ==
  <<";">> \o OP_TAG \o <<"=">> \o
  Join(<<PortLabel(v_node, entry.port), PortLabel(v_node, entry.out),
         Str(tag)>>, LABEL_DELIMITER)

\* One turn of the loop over the tokens of flowentry.match.
ParseMatchOp(v_node, entry, op) ==
  IF StartsWith(op, OP_INPORT) THEN [raised |-> FALSE, ret |-> <<>>]
  ELSE IF StartsWith(op, MATCH_TAG)
    THEN LET kv == Split(op, KV_DELIMITER)
         IN IF Len(kv) < 2 \/ ~PyInt0(kv[2]).ok
              THEN [raised |-> TRUE, ret |-> <<>>]
              ELSE [raised |-> FALSE,
                    ret |-> TagToken(v_node, entry, PyInt0(kv[2]).val)]
  ELSE [raised |-> FALSE, ret |-> <<";">> \o OP_FLOWCLASS \o <<"=">> \o op]

\* One turn of the loop over the tokens of flowentry.action.
ParseActionOp(v_node, entry, op) ==
  IF StartsWith(op, ACTION_PUSH_TAG)
    THEN LET kv == Split(op, ":")
         IN IF Len(kv) < 2 \/ ~PyInt0(kv[2]).ok
              THEN [raised |-> TRUE, ret |-> <<>>]
              ELSE [raised |-> FALSE,
                    ret |-> TagToken(v_node, entry, PyInt0(kv[2]).val)]
  ELSE IF StartsWith(op, ACTION_POP_TAG)
    THEN [raised |-> FALSE, ret |-> <<";">> \o OP_UNTAG]
  ELSE [raised |-> FALSE, ret |-> <<";">> \o op]

\* The match and the action that the flow entry loop of
\* _parse_virtualizer_node_flowentries builds for one flow entry.
ParseFlowentry(c, v_node, entry) ==
  LET mops == IF Truthy(entry.match) THEN Split(entry.match, OP_DELIMITER)
              ELSE <<>>
      aops == IF Truthy(entry.action) THEN Split(entry.action, OP_DELIMITER)
              ELSE <<>>
      m == Collect(mops, LAMBDA op : ParseMatchOp(v_node, entry, op))
      a == Collect(aops, LAMBDA op : ParseActionOp(v_node, entry, op))
  IN [raised |-> m.raised \/ a.raised,
      match |-> OP_INPORT \o <<"=">> \o PortText(c, v_node, entry.port)
                \o m.ret,
      action |-> OP_OUTPUT \o <<"=">> \o PortText(c, v_node, entry.out)
                 \o a.ret]

(***************************************************************************)
(* Flow rules of a graph that are dumped, parsed back and split            *)
(***************************************************************************)

\* The optional tokens of a match: a TAG, a flowclass and a token with a
\* key that is not supported.
MatchTags == { <<>>, <<OP_TAG \o <<"=", "s", "x", "|", "b", "b", "|", "5">>>>, <<OP_TAG \o <<"=", "a", "|", "b", "|", "1", "0">>>> }

MatchFlowclasses == { <<>>, <<OP_FLOWCLASS \o <<"=", "d", "l", "_", "t", "y", "p", "e", "=", "0", "x", "0", "8", "0", "0">>>> }

MatchUnknown == { <<>>, <<<<"f", "o", "o", "=", "1">>>> }

\* The optional tokens of an action: a TAG, UNTAG and an explicit operand.
ActionTags == { <<>>, <<OP_TAG \o <<"=", "b", "b", "|", "s", "2", "|", "1", "0">>>>, <<OP_TAG \o <<"=", "a", "|", "b", "|", "4", "0", "9", "4">>>> }

ActionUntags == { <<>>, <<OP_UNTAG>> }

ActionExplicit == { <<>>, <<<<"s", "t", "r", "i", "p", "_", "v", "l", "a", "n">>>>, <<<<"m", "o", "d", "_", "d", "l", "_", "d", "s", "t", "=", "a", "a">>>> }

InPorts(c) == { <<"1">>, DynPortId(c) }

OutPorts(c) == { <<"2">>, <<"3">>, DynPortId(c) }

Matches(c) ==
  { Join(<<OP_INPORT \o <<"=">> \o p>> \o t \o f \o u, OP_DELIMITER) :
      p \in InPorts(c), t \in MatchTags, f \in MatchFlowclasses,
      u \in MatchUnknown }

Actions(c) ==
  { Join(<<OP_OUTPUT \o <<"=">> \o p>> \o t \o u \o e, OP_DELIMITER) :
      p \in OutPorts(c), t \in ActionTags, u \in ActionUntags,
      e \in ActionExplicit }

FcIdle ==
  [pc |-> "idle", rule |-> [match |-> <<>>, action |-> <<>>],
   dump |-> [status |-> "none", entry |-> NoEntry],
   back |-> [raised |-> FALSE, match |-> <<>>, action |-> <<>>],
   split |-> [type |-> "", raised |-> FALSE,
              ret |-> [k \in SplitKeys |-> NoneS]]]

\* No flow rule on the node.
InitFc == fc = FcIdle

\* One flow rule on the node, built from the operator vocabulary.
InitFcRule ==
  \E m \in Matches(conv), a \in Actions(conv) :
    fc = [FcIdle EXCEPT !.rule = [match |-> m, action |-> a]]

\* dump_to_Virtualizer reaches the flow rule of the node.
DumpFlowrule ==
  /\ fc.pc = "idle"
  /\ fc' = [fc EXCEPT !.pc = "dumped",
                      !.dump = ConvertNffgFlowrule(conv, VNode, fc.rule)]
  /\ UNCHANGED notFcVars

\* parse_from_Virtualizer reaches the flow entry that the dump added.
ParseDumped ==
  /\ fc.pc = "dumped"
  /\ fc.dump.status = "ok"
  /\ fc' = [fc EXCEPT !.pc = "parsed",
                      !.back = ParseFlowentry(conv, VNode, fc.dump.entry)]
  /\ UNCHANGED notFcVars

\* field_splitter is applied to the match or the action of the flow rule.
SplitField(type) ==
  /\ fc.pc = "parsed"
  /\ LET field == IF type = TYPE_MATCH THEN fc.rule.match ELSE fc.rule.action
         r == FieldSplitter(type, field)
     IN fc' = [fc EXCEPT !.pc = "split",
                         !.split = [type |-> type, raised |-> r.raised,
                                    ret |-> r.ret]]
  /\ UNCHANGED notFcVars

SplitFieldAny == \E type \in {TYPE_MATCH, TYPE_ACTION} : SplitField(type)

NextFc == DumpFlowrule \/ ParseDumped \/ SplitFieldAny

(***************************************************************************)
(* Converter: dump_to_Virtualizer                                          *)
(*                                                                         *)
(* A graph is [infras, saps, links, flowrules, reqs]:                      *)
(*   infras     infra id -> [cpu, mem, storage, delay, bandwidth, ports,   *)
(*              constraints], ports being the ids of the ports             *)
(*   saps       set of [id, sap, port, infra, infra_port, delay,           *)
(*              bandwidth, link_delay, link_bandwidth]: a SAP with its     *)
(*              port and the pair of static links to the port of an infra  *)
(*   links      set of [id, src_node, src_port, dst_node, dst_port, delay, *)
(*              bandwidth]: the static links between infra nodes           *)
(*   flowrules  list of [infra, id, match, action, delay, bandwidth]       *)
(*   reqs       list of [id, src_node, dst_node, delay, bandwidth,         *)
(*              sg_path]                                                   *)
(* A tree is [raised, nodes, links]:                                       *)
(*   nodes      node id -> [cpu, mem, storage, metadata, ports, links,     *)
(*              flowtable, constraints]; links is the set of the links     *)
(*              inside the node, [id, delay, bandwidth]                    *)
(*   links      set of [id, src_node, src_port, dst_node, dst_port, delay, *)
(*              bandwidth]                                                 *)
(* A value of the graph is a number, a raw string or None; a value of the  *)
(* tree is a text or None (NoneS).                                         *)
(***************************************************************************)

NoVal == [num |-> NoneV, raw |-> NoneS]

Num(n) == [num |-> n, raw |-> NoneS]

Raw(str) == [num |-> NoneV, raw |-> str]

\* leaf.set_value(v), "%s" % v: the text of a value of the graph.
SetValue(v) ==
  IF v = NoVal THEN NoneS ELSE IF v.raw # NoneS THEN v.raw ELSE Str(v.num)

\* float(text) for the texts of whole numbers; ValueError (ok = FALSE) for
\* any other text.
PyFloat(text) == PyInt(text)

\* Mutation: the text is kept as it is.
FloatOrRaw_Mut(text) == IF text = NoneS THEN NoVal ELSE Raw(text)

\* try: float(leaf.get_value()) except ValueError: leaf.get_value(); None
\* for a leaf that is not initialized.
FloatOrRaw(text) ==
  IF text = NoneS THEN NoVal
  ELSE IF PyFloat(text).ok THEN Num(PyFloat(text).val) ELSE Raw(text)

\* try: int(id) except ValueError: id, written as the text of the result.
IntOrRaw(text) == IF PyInt(text).ok THEN Str(PyInt(text).val) ELSE text

EXTERNAL == <<"E", "X", "T", "E", "R", "N", "A", "L">>

DYNAMIC_PORT_MIN == 65536

\* The ports of an infra that _convert_nffg_infras leaves out: the dynamic
\* ports and the external ports.
SkippedPort(port_id) ==
  \/ IF PyInt(port_id).ok THEN ~(PyInt(port_id).val < DYNAMIC_PORT_MIN)
     ELSE Contains(port_id, LABEL_DELIMITER)
  \/ StartsWith(port_id, EXTERNAL)

\* The infra whose node in the tree has the id v_node_id.
InfraOf(c, g, v_node_id) ==
  CHOOSE i \in DOMAIN g.infras : RecreateBbId(c, i) = v_node_id

\* _convert_nffg_infras
ConvertNffgInfras(c, g) ==
  [raised |-> FALSE,
   nodes |->
     [v_node_id \in {RecreateBbId(c, i) : i \in DOMAIN g.infras} |->
        LET infra == g.infras[InfraOf(c, g, v_node_id)]
        IN [cpu |-> SetValue(infra.cpu), mem |-> SetValue(infra.mem),
            storage |-> SetValue(infra.storage),
            metadata |-> [delay |-> SetValue(infra.delay),
                          bandwidth |-> SetValue(infra.bandwidth)],
            ports |-> [pid \in {q \in infra.ports : ~SkippedPort(q)} |->
                         [port_type |-> TYPE_VIRTUALIZER_PORT_ABSTRACT,
                          name |-> NoneS, sap |-> NoneS,
                          delay |-> NoneS, bandwidth |-> NoneS]],
            links |-> {}, flowtable |-> <<>>, constraints |-> <<>>]],
   links |-> {}]

\* The SAP whose static links end at the port of the node, if any.
SapsAt(c, g, v_node_id, pid) ==
  {sap \in g.saps : /\ RecreateBbId(c, sap.infra) = v_node_id
                    /\ sap.infra_port = pid
                    /\ ~StartsWith(sap.id, EXTERNAL)}

\* _convert_nffg_saps
ConvertNffgSaps(c, g, t) ==
  [t EXCEPT !.nodes =
     [v_node_id \in DOMAIN t.nodes |->
        [t.nodes[v_node_id] EXCEPT !.ports =
           [pid \in DOMAIN t.nodes[v_node_id].ports |->
              IF SapsAt(c, g, v_node_id, pid) = {}
                THEN t.nodes[v_node_id].ports[pid]
                ELSE LET sap == CHOOSE x \in SapsAt(c, g, v_node_id, pid) : TRUE
                     IN [port_type |-> TYPE_VIRTUALIZER_PORT_SAP,
                         name |-> IF sap.sap # NoneS THEN NoneS
                                  ELSE SAP_NAME_PREFIX \o <<":">> \o sap.id,
                         sap |-> sap.sap,
                         delay |-> SetValue(sap.delay),
                         bandwidth |-> SetValue(sap.bandwidth)]]]]]

\* _convert_nffg_edges
ConvertNffgEdges(c, g, t) ==
  [t EXCEPT !.links =
     {[id |-> link.id,
       src_node |-> RecreateBbId(c, link.src_node), src_port |-> link.src_port,
       dst_node |-> RecreateBbId(c, link.dst_node), dst_port |-> link.dst_port,
       delay |-> SetValue(link.delay),
       bandwidth |-> SetValue(link.bandwidth)] : link \in g.links}]

\* The flow rules of the graph that belong to the infra, in their order.
FlowrulesOf(g, infra_id) ==
  SelectSeq(g.flowrules, LAMBDA fr : fr.infra = infra_id)

\* The node as the flow rule conversion sees it.
VNodeOf(t, v_node_id) ==
  [id |-> v_node_id, ports |-> t.nodes[v_node_id].ports, nfs |-> {}]

\* _convert_nffg_flowrules
ConvertNffgFlowrules(c, g, t) ==
  LET turns(v_node_id) ==
        LET frs == FlowrulesOf(g, InfraOf(c, g, v_node_id))
        IN [i \in 1..Len(frs) |->
              [fr |-> frs[i],
               conv |-> ConvertNffgFlowrule(c, VNodeOf(t, v_node_id), frs[i])]]
      added(v_node_id) ==
        LET ok == SelectSeq(turns(v_node_id),
                            LAMBDA turn : turn.conv.status = "ok")
        IN [i \in 1..Len(ok) |->
              [id |-> Str(ok[i].fr.id),
               port |-> ok[i].conv.entry.port, match |-> ok[i].conv.entry.match,
               out |-> ok[i].conv.entry.out, action |-> ok[i].conv.entry.action,
               delay |-> SetValue(ok[i].fr.delay),
               bandwidth |-> SetValue(ok[i].fr.bandwidth)]]
  IN [t EXCEPT
        !.raised = \E v_node_id \in DOMAIN t.nodes :
                     \E i \in 1..Len(turns(v_node_id)) :
                       turns(v_node_id)[i].conv.status = "raised",
        !.nodes = [v_node_id \in DOMAIN t.nodes |->
                     [t.nodes[v_node_id] EXCEPT !.flowtable = added(v_node_id)]]]

DELAY_VAR == <<"$", "d">>

BANDWIDTH_VAR == <<"$", "b", "w">>

\* The variable that stands for the delay / bandwidth of a flow entry in a
\* formula: the value of the flow entry if it is a variable already.
VariableOf(value, prefix, id) ==
  IF Truthy(value) /\ StartsWith(value, <<"$">>) THEN value ELSE prefix \o id

\* Mutation: the flow entries in the order of the flowtable.
HopsFound_Mut(flowtable, sg_path) ==
  SelectSeq([k \in 1..Len(flowtable) |-> k],
            LAMBDA k : \E i \in 1..Len(sg_path) :
                         flowtable[k].id = Str(sg_path[i]))

\* The flow entries of a flowtable that sg_path names, in the order of
\* sg_path: their positions in the flowtable.
HopsFound(flowtable, sg_path) ==
  LET found == SelectSeq(sg_path,
                 LAMBDA hop : \E k \in 1..Len(flowtable) :
                                flowtable[k].id = Str(hop))
  IN [i \in 1..Len(found) |->
        CHOOSE k \in 1..Len(flowtable) : flowtable[k].id = Str(found[i])]

\* The part of _convert_nffg_reqs for the delay of one requirement.
ConvertReqDelay(v_node, req) ==
  IF req.delay = NoVal THEN v_node
  ELSE LET hops == HopsFound(v_node.flowtable, req.sg_path)
           var(k) == VariableOf(v_node.flowtable[k].delay, DELAY_VAR,
                                v_node.flowtable[k].id)
           formula == Join([i \in 1..Len(hops) |-> var(hops[i])], "+")
                      \o <<"|", "m", "a", "x", "|">> \o SetValue(req.delay)
       IN [v_node EXCEPT
             !.flowtable = [k \in 1..Len(v_node.flowtable) |->
                IF k \in Range(hops)
                  THEN [v_node.flowtable[k] EXCEPT !.delay = var(k)]
                  ELSE v_node.flowtable[k]],
             !.constraints = Append(@,
                [id |-> <<"d", "e", "l", "a", "y", "-">> \o req.id,
                 formula |-> formula])]

\* The part of _convert_nffg_reqs for the bandwidth of one requirement.
ConvertReqBandwidth(v_node, req) ==
  IF req.bandwidth = NoVal THEN v_node
  ELSE LET hops == HopsFound(v_node.flowtable, req.sg_path)
           var(k) == VariableOf(v_node.flowtable[k].bandwidth, BANDWIDTH_VAR,
                                v_node.flowtable[k].id)
           formula == Join([i \in 1..Len(hops) |-> var(hops[i])], "+")
                      \o <<"|", "|">> \o SetValue(req.bandwidth)
       IN [v_node EXCEPT
             !.flowtable = [k \in 1..Len(v_node.flowtable) |->
                IF k \in Range(hops)
                  THEN [v_node.flowtable[k] EXCEPT !.bandwidth = var(k)]
                  ELSE v_node.flowtable[k]],
             !.constraints = Append(@,
                [id |-> <<"b", "a", "n", "d", "w", "i", "d", "t", "h", "-">>
                        \o req.id,
                 formula |-> formula])]

\* _convert_nffg_reqs: the requirements one after the other.
RECURSIVE ConvertNffgReqs(_, _, _)
ConvertNffgReqs(c, reqs, t) ==
  IF Len(reqs) = 0 THEN t
  ELSE LET req == reqs[1]
           infra_id == RecreateBbId(c, req.src_node)
       IN IF req.src_node # req.dst_node
            THEN ConvertNffgReqs(c, Tail(reqs), t)
          ELSE IF req.delay = NoVal /\ req.bandwidth = NoVal
            THEN ConvertNffgReqs(c, Tail(reqs), t)
          ELSE IF infra_id \notin DOMAIN t.nodes
            THEN [t EXCEPT !.raised = TRUE]
          ELSE ConvertNffgReqs(c, Tail(reqs),
                 [t EXCEPT !.nodes[infra_id] =
                    ConvertReqBandwidth(ConvertReqDelay(@, req), req)])

\* dump_to_Virtualizer
DumpToVirtualizer(c, g) ==
  ConvertNffgReqs(c, g.reqs,
    ConvertNffgFlowrules(c, g,
      ConvertNffgEdges(c, g,
        ConvertNffgSaps(c, g, ConvertNffgInfras(c, g)))))

(***************************************************************************)
(* Converter: parse_from_Virtualizer                                       *)
(***************************************************************************)

LowerChars == <<"a", "b", "c", "d", "e", "f", "g", "h", "i", "j", "k", "l", "m",
                "n", "o", "p", "q", "r", "s", "t", "u", "v", "w", "x", "y", "z">>

UpperChars == <<"A", "B", "C", "D", "E", "F", "G", "H", "I", "J", "K", "L", "M",
                "N", "O", "P", "Q", "R", "S", "T", "U", "V", "W", "X", "Y", "Z">>

\* s.upper()
Upper(s) ==
  [i \in 1..Len(s) |->
     IF \E k \in 1..26 : LowerChars[k] = s[i]
       THEN UpperChars[CHOOSE k \in 1..26 : LowerChars[k] = s[i]]
       ELSE s[i]]

\* s.strip() for blanks
RECURSIVE Strip(_)
Strip(s) ==
  IF Len(s) > 0 /\ s[1] = " " THEN Strip(Tail(s))
  ELSE IF Len(s) > 0 /\ s[Len(s)] = " " THEN Strip(SubSeq(s, 1, Len(s) - 1))
  ELSE s

\* The elements of a finite set in some order.
RECURSIVE SetToSeq(_)
SetToSeq(S) ==
  IF S = {} THEN <<>>
  ELSE LET x == CHOOSE x \in S : TRUE IN <<x>> \o SetToSeq(S \ {x})

\* The id of the SAP that _parse_virtualizer_node_ports creates for a port
\* of type port-sap.
SapIdOf(pid, v_port) ==
  IF Truthy(v_port.sap) THEN v_port.sap
  ELSE IF StartsWith(pid, SAP_NAME_PREFIX) THEN pid
  ELSE IF v_port.name # NoneS
          /\ StartsWith(Upper(v_port.name), SAP_NAME_PREFIX \o <<":">>)
    THEN SubSeq(v_port.name, Len(SAP_NAME_PREFIX) + 2, Len(v_port.name))
  ELSE IF v_port.name # NoneS /\ StartsWith(Upper(v_port.name), SAP_NAME_PREFIX)
    THEN v_port.name
  ELSE pid

PortTypes == {TYPE_VIRTUALIZER_PORT_SAP, TYPE_VIRTUALIZER_PORT_ABSTRACT}

\* _parse_virtualizer_node_ports: the ports added to the infra
ParsedPorts(v_node) ==
  {IntOrRaw(pid) : pid \in {q \in DOMAIN v_node.ports :
                              v_node.ports[q].port_type \in PortTypes}}

\* _parse_virtualizer_node_ports: the SAPs created with their port and
\* their pair of links to the infra
ParsedSaps(node_id, v_node) ==
  {LET v_port == v_node.ports[pid]
   IN [id |-> SapIdOf(pid, v_port), sap |-> v_port.sap,
       port |-> IntOrRaw(pid), infra |-> node_id, infra_port |-> IntOrRaw(pid),
       delay |-> FloatOrRaw(v_port.delay),
       bandwidth |-> FloatOrRaw(v_port.bandwidth),
       link_delay |-> FloatOrRaw(v_port.delay),
       link_bandwidth |-> FloatOrRaw(v_port.bandwidth)] :
   pid \in {q \in DOMAIN v_node.ports :
              v_node.ports[q].port_type = TYPE_VIRTUALIZER_PORT_SAP}}

\* _parse_virtualizer_node_flowentries: the flow rules added to the ports
\* of the infra, and whether a flow entry raised.
ParsedFlowrules(c, node_id, v_node_id, v_node) ==
  LET view == [id |-> v_node_id, ports |-> v_node.ports, nfs |-> {}]
      valid == SelectSeq(v_node.flowtable, LAMBDA fe : PyInt(fe.id).ok)
      turns == [i \in 1..Len(valid) |-> ParseFlowentry(c, view, valid[i])]
  IN [raised |-> \E i \in 1..Len(valid) : turns[i].raised,
      flowrules |-> [i \in 1..Len(valid) |->
                       [infra |-> node_id, id |-> PyInt(valid[i].id).val,
                        match |-> turns[i].match, action |-> turns[i].action,
                        delay |-> FloatOrRaw(valid[i].delay),
                        bandwidth |-> FloatOrRaw(valid[i].bandwidth)]]]

\* The text is there and float(text) raises ValueError.
NonNumeric(text) == text # NoneS /\ ~PyFloat(text).ok

Max(S) == CHOOSE x \in S : \A y \in S : y <= x

\* _parse_virtualizer_nodes: float(...) of the delay and the bandwidth of
\* the links inside the node raises ValueError. The bandwidths are read
\* with no bandwidth in the metadata, the delays with no delay in the
\* metadata and once more for the delay matrix.
NodeLinksRaise(v_node) ==
  \/ /\ v_node.metadata.bandwidth = NoneS
     /\ \E vlink \in v_node.links : NonNumeric(vlink.bandwidth)
  \/ /\ v_node.metadata.delay = NoneS
     /\ \E vlink \in v_node.links : NonNumeric(vlink.delay)
  \/ \E vlink \in v_node.links : NonNumeric(vlink.delay)

\* _parse_virtualizer_nodes: node_bw, the bandwidth of the metadata or the
\* least bandwidth of the links inside the node.
NodeBw(v_node) ==
  LET bws == {PyFloat(vlink.bandwidth).val :
                vlink \in {l \in v_node.links : l.bandwidth # NoneS}}
  IN IF v_node.metadata.bandwidth # NoneS
       THEN FloatOrRaw(v_node.metadata.bandwidth)
     ELSE IF bws = {} THEN NoVal ELSE Num(Min(bws))

\* _parse_virtualizer_nodes: node_delay, the delay of the metadata or the
\* greatest delay of the links inside the node.
NodeDelay(v_node) ==
  LET delays == {PyFloat(vlink.delay).val :
                   vlink \in {l \in v_node.links : l.delay # NoneS}}
  IN IF v_node.metadata.delay # NoneS
       THEN FloatOrRaw(v_node.metadata.delay)
     ELSE IF delays = {} THEN NoVal ELSE Num(Max(delays))

\* The node of the tree that becomes the infra node_id.
VNodeIdOf(c, t, node_id) ==
  CHOOSE v \in DOMAIN t.nodes : GenUniqueBbId(c, v) = node_id

\* _parse_virtualizer_nodes
ParseVirtualizerNodes(c, t) ==
  LET ids == {GenUniqueBbId(c, v) : v \in DOMAIN t.nodes}
      vn(node_id) == t.nodes[VNodeIdOf(c, t, node_id)]
      frs(node_id) == ParsedFlowrules(c, node_id, VNodeIdOf(c, t, node_id),
                                      vn(node_id))
      order == SetToSeq(ids)
  IN [raised |-> \E node_id \in ids :
                    NodeLinksRaise(vn(node_id)) \/ frs(node_id).raised,
      infras |-> [node_id \in ids |->
                    [cpu |-> FloatOrRaw(Split(vn(node_id).cpu, " ")[1]),
                     mem |-> FloatOrRaw(Split(vn(node_id).mem, " ")[1]),
                     storage |-> FloatOrRaw(Split(vn(node_id).storage, " ")[1]),
                     delay |-> NodeDelay(vn(node_id)),
                     bandwidth |-> NodeBw(vn(node_id)),
                     ports |-> ParsedPorts(vn(node_id)),
                     constraints |-> vn(node_id).constraints]],
      saps |-> UNION {ParsedSaps(node_id, vn(node_id)) : node_id \in ids},
      links |-> {},
      flowrules |-> Flatten([i \in 1..Len(order) |-> frs(order[i]).flowrules]),
      reqs |-> <<>>]

\* _parse_virtualizer_links
ParseVirtualizerLinks(c, t, g) ==
  [g EXCEPT
     !.raised = @ \/ \E vlink \in t.links :
                       \/ vlink.delay # NoneS /\ ~PyFloat(vlink.delay).ok
                       \/ vlink.bandwidth # NoneS /\ ~PyFloat(vlink.bandwidth).ok,
     !.links = {[id |-> vlink.id,
                 src_node |-> GenUniqueBbId(c, vlink.src_node),
                 src_port |-> IntOrRaw(vlink.src_port),
                 dst_node |-> GenUniqueBbId(c, vlink.dst_node),
                 dst_port |-> IntOrRaw(vlink.dst_port),
                 delay |-> FloatOrRaw(vlink.delay),
                 bandwidth |-> FloatOrRaw(vlink.bandwidth)] :
                vlink \in t.links}]

\* __process_variables: the flow rules of the infra (their positions in
\* the list of flow rules) whose delay or bandwidth is one of the
\* variables, and the kinds of fields that matched.
ProcessVariables(flowrules, infra_id, variables) ==
  LET mine == SelectSeq([k \in 1..Len(flowrules) |-> k],
                        LAMBDA k : flowrules[k].infra = infra_id)
      hits(var) ==
        Flatten([i \in 1..Len(mine) |->
                   (IF flowrules[mine[i]].delay = Raw(var)
                      THEN <<[k |-> mine[i], type |-> "delay"]>> ELSE <<>>)
                   \o (IF flowrules[mine[i]].bandwidth = Raw(var)
                         THEN <<[k |-> mine[i], type |-> "bandwidth"]>>
                         ELSE <<>>)])
      all == Flatten([i \in 1..Len(variables) |-> hits(Strip(variables[i]))])
      types == {all[i].type : i \in 1..Len(all)}
  IN IF Cardinality(types) # 1 THEN [ok |-> FALSE, frs |-> <<>>, type |-> ""]
     ELSE [ok |-> TRUE, frs |-> [i \in 1..Len(all) |-> all[i].k],
           type |-> CHOOSE ty \in types : TRUE]

\* The port a flow rule is stored at and the port it sends to.
InportOfFlowrule(fr) == Split(Split(fr.match, OP_DELIMITER)[1], KV_DELIMITER)[2]

OutputPortOfFlowrule(fr) ==
  Split(Split(fr.action, OP_DELIMITER)[1], KV_DELIMITER)[2]

\* One turn of the loop of _parse_virtualizer_requirement over the
\* formulas of an infra: i is the position of the formula.
ParseFormula(g, infra_id, i) ==
  LET formula == g.infras[infra_id].constraints[i].formula
      splitted == Split(formula, LABEL_DELIMITER)
      variables == Split(Strip(splitted[1]), "+")
      value == PyFloat(Last(splitted))
      pv == ProcessVariables(g.flowrules, infra_id, variables)
      sport == InportOfFlowrule(g.flowrules[pv.frs[1]])
      dport == OutputPortOfFlowrule(g.flowrules[Last(pv.frs)])
      known == {r \in 1..Len(g.reqs) :
                  /\ g.reqs[r].src_node = infra_id
                  /\ g.reqs[r].src_port = sport /\ g.reqs[r].dst_port = dport}
      reqs == IF known # {} THEN g.reqs
              ELSE Append(g.reqs,
                     [id |-> <<"r", "e", "q">> \o Str(i - 1),
                      src_node |-> infra_id, dst_node |-> infra_id,
                      src_port |-> sport, dst_port |-> dport,
                      delay |-> NoVal, bandwidth |-> NoVal,
                      sg_path |-> [j \in 1..Len(pv.frs) |->
                                     g.flowrules[pv.frs[j]].id]])
      r == IF known # {} THEN CHOOSE x \in known : TRUE ELSE Len(reqs)
  IN IF ~value.ok \/ ~pv.ok THEN [g |-> g, done |-> FALSE]
     ELSE [done |-> TRUE,
           g |-> [g EXCEPT
             !.reqs = IF pv.type = "delay"
                        THEN [reqs EXCEPT ![r].delay = Num(value.val)]
                        ELSE [reqs EXCEPT ![r].bandwidth = Num(value.val)],
             !.flowrules = [k \in 1..Len(g.flowrules) |->
                IF k \notin Range(pv.frs) THEN g.flowrules[k]
                ELSE IF pv.type = "delay"
                  THEN [g.flowrules[k] EXCEPT !.delay = NoVal]
                  ELSE [g.flowrules[k] EXCEPT !.bandwidth = NoVal]]]]

\* The loop over the formulas of one infra from position i on; done is the
\* set of the positions of the formulas to delete.
RECURSIVE ParseFormulas(_, _, _, _)
ParseFormulas(g, infra_id, i, done) ==
  IF i > Len(g.infras[infra_id].constraints)
    THEN [g EXCEPT !.infras[infra_id].constraints =
            SelectSeq(@, LAMBDA con :
              \A k \in done : g.infras[infra_id].constraints[k] # con)]
    ELSE LET turn == ParseFormula(g, infra_id, i)
         IN ParseFormulas(turn.g, infra_id, i + 1,
                          IF turn.done THEN done \cup {i} ELSE done)

\* _parse_virtualizer_requirement: the infras one after the other.
RECURSIVE ParseVirtualizerRequirement(_, _)
ParseVirtualizerRequirement(g, infra_ids) ==
  IF Len(infra_ids) = 0 THEN g
  ELSE ParseVirtualizerRequirement(ParseFormulas(g, infra_ids[1], 1, {}),
                                   Tail(infra_ids))

\* parse_from_Virtualizer
ParseFromVirtualizer(c, t) ==
  LET g == ParseVirtualizerLinks(c, t, ParseVirtualizerNodes(c, t))
  IN ParseVirtualizerRequirement(g, SetToSeq(DOMAIN g.infras))

(***************************************************************************)
(* Graphs that are dumped and parsed back                                  *)
(***************************************************************************)

B2_ID == <<"b", "2">>

\* The infra bb has the ports 1, 2 and 3: port 2 leads to the SAP s2 and
\* port 3 to the inter-domain SAP sx. The infra b2, if there is one, has the
\* port 1, and the static link l1 leads from bb to it. A requirement leads
\* over flow rules that the graph has.
InfraBB(delay) ==
  [cpu |-> Num(4), mem |-> Num(8), storage |-> Num(16), delay |-> delay,
   bandwidth |-> Num(100), ports |-> {<<"1">>, <<"2">>, <<"3">>},
   constraints |-> <<>>]

InfraB2 ==
  [cpu |-> Num(2), mem |-> Num(4), storage |-> Num(8), delay |-> NoVal,
   bandwidth |-> NoVal, ports |-> {<<"1">>}, constraints |-> <<>>]

SapS2(delay, link_delay) ==
  [id |-> <<"s", "2">>, sap |-> NoneS, port |-> <<"2">>, infra |-> BB_ID,
   infra_port |-> <<"2">>, delay |-> delay, bandwidth |-> NoVal,
   link_delay |-> link_delay, link_bandwidth |-> NoVal]

SapSX ==
  [id |-> <<"s", "x">>, sap |-> <<"s", "x">>, port |-> <<"3">>,
   infra |-> BB_ID, infra_port |-> <<"3">>, delay |-> NoVal,
   bandwidth |-> Num(30), link_delay |-> NoVal, link_bandwidth |-> Num(30)]

LinkL1(delay) ==
  [id |-> <<"l", "1">>, src_node |-> BB_ID, src_port |-> <<"1">>,
   dst_node |-> B2_ID, dst_port |-> <<"1">>, delay |-> delay,
   bandwidth |-> Num(10)]

Rule1(delay, bandwidth) ==
  [infra |-> BB_ID, id |-> 1, match |-> <<"i", "n", "_", "p", "o", "r", "t", "=", "1">>, action |-> <<"o", "u", "t", "p", "u", "t", "=", "2", ";", "T", "A", "G", "=", "b", "b", "|", "s", "2", "|", "5">>,
   delay |-> delay, bandwidth |-> bandwidth]

Rule2(delay) ==
  [infra |-> BB_ID, id |-> 2, match |-> <<"i", "n", "_", "p", "o", "r", "t", "=", "2", ";", "T", "A", "G", "=", "b", "b", "|", "s", "2", "|", "5">>,
   action |-> <<"o", "u", "t", "p", "u", "t", "=", "3", ";", "U", "N", "T", "A", "G">>, delay |-> delay, bandwidth |-> NoVal]

Req(delay, bandwidth, sg_path, src_port, dst_port) ==
  [id |-> <<"r", "1">>, src_node |-> BB_ID, dst_node |-> BB_ID,
   src_port |-> src_port, dst_port |-> dst_port, delay |-> delay,
   bandwidth |-> bandwidth, sg_path |-> sg_path]

ReqLists ==
  { <<>>, <<Req(Num(50), NoVal, <<1>>, <<"1">>, <<"2">>)>>,
    <<Req(Num(50), Num(10), <<1, 2>>, <<"1">>, <<"3">>)>>,
    <<Req(NoVal, Num(10), <<2, 1>>, <<"2">>, <<"2">>)>>,
    <<Req(Num(60), NoVal, <<2, 1>>, <<"2">>, <<"2">>)>> }

AllGraphs ==
  { [raised |-> FALSE,
     infras |-> IF second THEN (BB_ID :> InfraBB(d)) @@ (B2_ID :> InfraB2)
                ELSE (BB_ID :> InfraBB(d)),
     saps |-> {SapS2(sd, sl), SapSX},
     links |-> IF second THEN {LinkL1(ld)} ELSE {},
     flowrules |-> <<Rule1(d1, b1)>> \o r2,
     reqs |-> reqs] :
    d \in {NoVal, Num(2)}, second \in BOOLEAN, ld \in {NoVal, Num(3)},
    sd \in {NoVal, Num(4)}, sl \in {NoVal, Num(4)},
    d1 \in {NoVal, Num(7)}, b1 \in {NoVal, Num(20)},
    r2 \in {<<>>, <<Rule2(NoVal)>>, <<Rule2(Num(9))>>}, reqs \in ReqLists }

\* Every requirement leads over flow rules of the graph.
PathsExist(g) ==
  \A i \in DOMAIN g.reqs : \A j \in DOMAIN g.reqs[i].sg_path :
    \E k \in DOMAIN g.flowrules :
      /\ g.flowrules[k].id = g.reqs[i].sg_path[j]
      /\ g.flowrules[k].infra = g.reqs[i].src_node

Graphs == { g \in AllGraphs : PathsExist(g) }

NoTree == [raised |-> FALSE, nodes |-> <<>>, links |-> {}]

NoGraph == [raised |-> FALSE, infras |-> <<>>, saps |-> {}, links |-> {},
            flowrules |-> <<>>, reqs |-> <<>>]

\* No graph at hand.
InitRt == rt = [pc |-> "idle", graph |-> NoGraph, tree |-> NoTree,
                back |-> NoGraph]

\* A graph at hand.
InitRtGraph ==
  \E g \in Graphs :
    rt = [pc |-> "idle", graph |-> g, tree |-> NoTree, back |-> NoGraph]

\* dump_to_Virtualizer(nffg)
Dump ==
  /\ rt.pc = "idle"
  /\ rt' = [rt EXCEPT !.pc = "dumped",
                      !.tree = DumpToVirtualizer(conv, rt.graph)]
  /\ UNCHANGED notRtVars

\* parse_from_Virtualizer(vdata) of the tree that the dump returned
Parse ==
  /\ rt.pc = "dumped"
  /\ ~rt.tree.raised
  /\ rt' = [rt EXCEPT !.pc = "parsed",
                      !.back = ParseFromVirtualizer(conv, rt.tree)]
  /\ UNCHANGED notRtVars

NextRt == Dump \/ Parse

\* A tree with the nodes bb and b2, the SAP s2 on port 2 of bb, one flow
\* entry on bb and the link l1 between the nodes.
BaseTree ==
  DumpToVirtualizer(
    [domain |-> NoneS, unique_bb_id |-> FALSE, unique_nf_id |-> FALSE],
    [raised |-> FALSE,
     infras |-> (BB_ID :> InfraBB(Num(2))) @@ (B2_ID :> InfraB2),
     saps |-> {SapS2(Num(4), Num(4)), SapSX},
     links |-> {LinkL1(Num(3))},
     flowrules |-> <<Rule1(Num(7), Num(20))>>,
     reqs |-> <<>>])

NON_NUMERIC == <<"f", "a", "s", "t">>

\* A resource value of a tree: none, a number or a text that is no number.
ValueTexts == {NoneS, <<"5">>, NON_NUMERIC}

\* The links inside a node: none, or one link from port 1 to port 2 with
\* its delay and its bandwidth.
NodeLinkSets ==
  {{}} \cup {{[id |-> <<"i", "1">>, delay |-> d, bandwidth |-> b]} :
              d \in ValueTexts, b \in {<<"5">>, NON_NUMERIC}}

\* The trees that differ from BaseTree in resource values.
ValueTrees ==
  { [BaseTree EXCEPT
       !.nodes[BB_ID].cpu = cpu,
       !.nodes[BB_ID].metadata.delay = node_delay,
       !.nodes[BB_ID].ports[<<"2">>].delay = port_delay,
       !.nodes[BB_ID].flowtable[1].bandwidth = fe_bandwidth,
       !.nodes[BB_ID].links = node_links,
       !.links = {[vlink EXCEPT !.delay = link_delay] :
                    vlink \in BaseTree.links}] :
    cpu \in {<<"4">>, NON_NUMERIC}, node_delay \in ValueTexts,
    port_delay \in {<<"5">>, NON_NUMERIC},
    fe_bandwidth \in {<<"5">>, NON_NUMERIC},
    node_links \in NodeLinkSets, link_delay \in ValueTexts }

\* A tree at hand, as another party sent it.
InitRtTree ==
  \E t \in ValueTrees :
    rt = [pc |-> "dumped", graph |-> NoGraph, tree |-> t, back |-> NoGraph]

NextVal == Parse

(***************************************************************************)
(* Reconstructor: SG hops from the flow rules of a single BiSBiS           *)
(***************************************************************************)

\* A port id of the graph: the int or the str that add_port was given.
IntId(n) == [int |-> TRUE, text |-> Str(n)]

StrId(text) == [int |-> FALSE, text |-> text]

\* try: int(vport.id.get_value()) except ValueError: vport.id.get_value()
ParsedPortId(text) ==
  IF PyInt(text).ok THEN IntId(PyInt(text).val) ELSE StrId(text)

\* l.src.id == in_port, where in_port is the str cut out of a match or an
\* action: an int never equals a str.
SamePortId(id, text) == ~id.int /\ id.text = text

\* [l.dst for u, v, l in nffg.real_out_edges_iter(sbb.id)
\*  if l.src.id == in_port]: the edges, since two edges may lead to one port.
OppositeNode(g, text) == {l \in g.edges : SamePortId(l.src, text)}

\* The last token of a field that starts with the key: its text after the
\* first '='. found = FALSE without such a token, raised (IndexError) for a
\* token without '='.
TokenOf(field, key) ==
  LET items == SelectSeq(Split(field, OP_DELIMITER),
                         LAMBDA item : StartsWith(item, key))
  IN IF items = <<>> THEN [found |-> FALSE, raised |-> FALSE, val |-> NoneS]
     ELSE [found |-> TRUE,
           raised |-> \E i \in 1..Len(items) :
                        Len(Split(items[i], KV_DELIMITER)) < 2,
           val |-> IF Len(Split(Last(items), KV_DELIMITER)) < 2 THEN NoneS
                   ELSE Split(Last(items), KV_DELIMITER)[2]]

\* The flowclass that the loop over the items of a match ends with: the
\* text after the first '=' of a flowclass item (IndexError without '='),
\* any other item that is no in_port, TAG or UNTAG as it is.
FlowclassOf(match) ==
  LET items == SelectSeq(Split(match, OP_DELIMITER),
                 LAMBDA item : /\ ~StartsWith(item, OP_INPORT)
                               /\ ~StartsWith(item, OP_TAG)
                               /\ ~StartsWith(item, OP_UNTAG))
      bare(item) == StartsWith(item, OP_FLOWCLASS)
                    /\ ~Contains(item, KV_DELIMITER)
  IN [raised |-> \E i \in 1..Len(items) : bare(items[i]),
      val |-> IF items = <<>> \/ bare(Last(items)) THEN NoneS
              ELSE IF StartsWith(Last(items), OP_FLOWCLASS)
                THEN Split1(Last(items), KV_DELIMITER)[2]
              ELSE Last(items)]

\* One turn of the loop of _parse_sghops_from_flowrules over the flow rules:
\* "hop" with the SG hop added, "continue", "return", or "raise".
SgHopOf(g, flowrule) ==
  LET in_port == TokenOf(flowrule.match, OP_INPORT)
      output == TokenOf(flowrule.action, OP_OUTPUT)
      src == OppositeNode(g, in_port.val)
      dst == OppositeNode(g, output.val)
      none == [id |-> flowrule.id, src |-> NoneS, dst |-> NoneS,
               flowclass |-> NoneS, delay |-> NoVal, bandwidth |-> NoVal,
               constraints |-> <<>>]
  IN IF in_port.raised \/ FlowclassOf(flowrule.match).raised
       THEN [turn |-> "raise", hop |-> none]
     ELSE IF ~in_port.found THEN [turn |-> "return", hop |-> none]
     ELSE IF Cardinality(src) # 1 THEN [turn |-> "continue", hop |-> none]
     ELSE IF output.raised THEN [turn |-> "raise", hop |-> none]
     ELSE IF ~output.found THEN [turn |-> "return", hop |-> none]
     ELSE IF Cardinality(dst) # 1 THEN [turn |-> "continue", hop |-> none]
     ELSE [turn |-> "hop",
           hop |-> [id |-> flowrule.id,
                    src |-> (CHOOSE l \in src : TRUE).dst,
                    dst |-> (CHOOSE l \in dst : TRUE).dst,
                    flowclass |-> FlowclassOf(flowrule.match).val,
                    delay |-> flowrule.delay,
                    bandwidth |-> flowrule.bandwidth,
                    constraints |-> flowrule.constraints]]

\* The turns that end the loop over the flow rules.
LoopEnds(turn) == turn \in {"return", "raise"}

\* _parse_sghops_from_flowrules(nffg): the SG hops added, in the order of
\* sbb.flowrules(), and whether an exception left the loop.
ParseSghopsFromFlowrules(g) ==
  LET turns == [k \in 1..Len(g.flowrules) |-> SgHopOf(g, g.flowrules[k])]
      ends == {k \in 1..Len(turns) : LoopEnds(turns[k].turn)}
      last == IF ends = {} THEN Len(turns)
              ELSE CHOOSE k \in ends : \A j \in ends : k <= j
  IN IF ~g.is_SBB THEN [raised |-> FALSE, hops |-> <<>>]
     ELSE [raised |-> ends # {} /\ turns[last].turn = "raise",
           hops |-> Flatten([k \in 1..last |->
                      IF turns[k].turn = "hop" THEN <<turns[k].hop>>
                      ELSE <<>>])]

(***************************************************************************)
(* Reconstructor: the parse of the tree of a single BiSBiS                 *)
(***************************************************************************)

\* The node as the flow entry loop sees it: its ports by id.
SbView(t) ==
  [id |-> BB_ID,
   ports |-> [pid \in {t.ports[i].id : i \in 1..Len(t.ports)} |->
                LET v_port == t.ports[CHOOSE i \in 1..Len(t.ports) :
                                        t.ports[i].id = pid]
                IN [port_type |-> v_port.port_type, name |-> v_port.name,
                    sap |-> v_port.sap]],
   nfs |-> t.nfs]

\* _parse_virtualizer_node_ports and _parse_virtualizer_node_nfs: the ports
\* added to the infra, in the order they are added. A port whose port_type
\* is neither port-sap nor port-abstract is not added.
SbInfraPorts(c, t) ==
  LET typed == SelectSeq(t.ports, LAMBDA v_port : v_port.port_type \in PortTypes)
      nfs == SetToSeq(t.nfs)
  IN [i \in 1..Len(typed) |-> ParsedPortId(typed[i].id)]
     \o [i \in 1..Len(nfs) |-> StrId(DynPortIdOf(c, BB_ID, nfs[i]))]

\* The edges that leave the infra: the static link to the SAP of each
\* port-sap port and the dynamic link to the port of each NF.
SbEdges(c, t) ==
  { [id |-> i, src |-> ParsedPortId(t.ports[i].id),
     dst |-> [node |-> SapIdOf(t.ports[i].id, t.ports[i]),
              port |-> ParsedPortId(t.ports[i].id)]] :
    i \in {j \in 1..Len(t.ports) :
             t.ports[j].port_type = TYPE_VIRTUALIZER_PORT_SAP} }
  \cup { [id |-> Len(t.ports) + 1,
          src |-> StrId(DynPortIdOf(c, BB_ID, nf)),
          dst |-> [node |-> GenUniqueNfId(c, nf, BB_ID, BB_ID),
                   port |-> ParsedPortId(NF_PORT_ID)]] : nf \in t.nfs }

\* nffg[infra.id].ports[vport_id]: the KeyError of a missing port is not
\* among the exceptions the flow entry loop catches.
PortLookup(ports, vport_id) ==
  IF \E i \in 1..Len(ports) : ports[i] = vport_id THEN "ok" ELSE "raise"

\* One turn of the loop of _parse_virtualizer_node_flowentries: "ok" with
\* the port the flow rule is added to, "continue" or "raise".
SbFlowentry(c, t, fe) ==
  LET ports == SbInfraPorts(c, t)
      none == [turn |-> "continue", port |-> StrId(NoneS)]
      parsed == ParseFlowentry(c, SbView(t), fe)
  IN IF ~PyInt(fe.id).ok THEN none
     ELSE IF ~fe.port.target \/ ~fe.out.target THEN none
     ELSE IF parsed.raised THEN [none EXCEPT !.turn = "raise"]
     ELSE IF fe.port.nf = NoneS
       THEN [turn |-> PortLookup(ports, ParsedPortId(fe.port.id)),
             port |-> ParsedPortId(fe.port.id)]
     ELSE IF fe.port.nf \in t.nfs /\ fe.port.id = NF_PORT_ID
       THEN [turn |-> "ok",
             port |-> StrId(DynPortIdOf(c, BB_ID, fe.port.nf))]
     ELSE none

\* The parse of the tree of a single BiSBiS down to its flow rules, which
\* come in the order of sbb.flowrules(): port by port.
ParseSbb(c, t) ==
  LET ports == SbInfraPorts(c, t)
      turns == [k \in 1..Len(t.flowtable) |-> SbFlowentry(c, t, t.flowtable[k])]
      rule(k) ==
        LET parsed == ParseFlowentry(c, SbView(t), t.flowtable[k])
        IN [id |-> PyInt(t.flowtable[k].id).val, match |-> parsed.match,
            action |-> parsed.action,
            delay |-> FloatOrRaw(t.flowtable[k].delay),
            bandwidth |-> FloatOrRaw(t.flowtable[k].bandwidth),
            constraints |-> t.flowtable[k].constraints]
      at(port) == SelectSeq([k \in 1..Len(turns) |-> k],
                    LAMBDA k : turns[k].turn = "ok" /\ turns[k].port = port)
  IN [raised |-> \E k \in 1..Len(turns) : turns[k].turn = "raise",
      is_SBB |-> TRUE,
      edges |-> SbEdges(c, t),
      flowrules |-> Flatten([i \in 1..Len(ports) |->
                      [j \in 1..Len(at(ports[i])) |-> rule(at(ports[i])[j])]])]

(***************************************************************************)
(* Graphs of a single BiSBiS whose SG hops are recreated                   *)
(***************************************************************************)

SAP1 == <<"s", "1">>

SAP2 == <<"s", "2">>

\* The edges that leave the infra: from its ports pa and pb to the SAPs s1
\* and s2, from the dynamic port to the NF nf, and, if asked for, a second
\* edge from the port pb.
HopEdges(second) ==
  { [id |-> 1, src |-> StrId(<<"p", "a">>),
     dst |-> [node |-> SAP1, port |-> StrId(<<"p", "a">>)]],
    [id |-> 2, src |-> StrId(<<"p", "b">>),
     dst |-> [node |-> SAP2, port |-> StrId(<<"p", "b">>)]],
    [id |-> 3, src |-> StrId(DynPortIdOf(conv, BB_ID, NF_ID)),
     dst |-> [node |-> NF_ID, port |-> IntId(1)]] }
  \cup (IF second
          THEN {[id |-> 4, src |-> StrId(<<"p", "b">>),
                 dst |-> [node |-> NF_ID, port |-> IntId(2)]]}
          ELSE {})

HopRule(id, match, action) ==
  [id |-> id, match |-> match, action |-> action, delay |-> Num(id),
   bandwidth |-> NoVal, constraints |-> <<>>]

\* Flow rules that give a hop, if the port pb has one edge.
GoodMatches ==
  { <<"i", "n", "_", "p", "o", "r", "t", "=", "p", "a">>, <<"i", "n", "_", "p", "o", "r", "t", "=", "p", "a", ";", "f", "l", "o", "w", "c", "l", "a", "s", "s", "=", "d", "l", "_", "t", "y", "p", "e", "=", "0", "x", "0", "8", "0", "0">>,
    OP_INPORT \o <<"=">> \o DynPortIdOf(conv, BB_ID, NF_ID)
      \o <<";", "T", "A", "G", "=", "n", "f", "|", "s", "2", "|", "5">>,
    <<"i", "n", "_", "p", "o", "r", "t", "=", "p", "a", ";", "f", "l", "o", "w", "c", "l", "a", "s", "s", "=", "a", "=", "1", ";", "f", "l", "o", "w", "c", "l", "a", "s", "s", "=", "b", "=", "2">> }

GoodActions == { <<"o", "u", "t", "p", "u", "t", "=", "p", "b">>, OP_OUTPUT \o <<"=">> \o DynPortIdOf(conv, BB_ID, NF_ID) \o <<";", "U", "N", "T", "A", "G">> }

\* Flow rules that give no hop: no in_port token, no output token, a port
\* without an edge.
BadRules ==
  { [match |-> <<"T", "A", "G", "=", "s", "1", "|", "n", "f", "|", "5">>, action |-> <<"o", "u", "t", "p", "u", "t", "=", "p", "b">>],
    [match |-> <<"i", "n", "_", "p", "o", "r", "t", "=", "p", "a">>, action |-> <<"U", "N", "T", "A", "G">>],
    [match |-> <<"i", "n", "_", "p", "o", "r", "t", "=", "z", "z">>, action |-> <<"o", "u", "t", "p", "u", "t", "=", "p", "b">>],
    [match |-> <<"i", "n", "_", "p", "o", "r", "t", "=", "p", "a">>, action |-> <<"o", "u", "t", "p", "u", "t", "=", "z", "z">>] }

\* One to three flow rules: the first and the third give a hop, the second
\* is any rule.
HopRuleLists ==
  { <<HopRule(10, m1, a1)>> : m1 \in GoodMatches, a1 \in GoodActions }
  \cup { <<HopRule(10, m1, a1), HopRule(20, r.match, r.action),
           HopRule(30, <<"i", "n", "_", "p", "o", "r", "t", "=", "p", "a">>, a3)>> :
         m1 \in GoodMatches, a1 \in GoodActions, a3 \in GoodActions,
         r \in BadRules \cup {[match |-> OP_INPORT \o <<"=">> \o DynPortIdOf(conv, BB_ID, NF_ID)
      \o <<";", "T", "A", "G", "=", "n", "f", "|", "s", "2", "|", "5">>, action |-> <<"o", "u", "t", "p", "u", "t", "=", "p", "b">>]} }

HopGraphs ==
  { [raised |-> FALSE, is_SBB |-> sbb, edges |-> HopEdges(second),
     flowrules |-> frs] :
    sbb \in BOOLEAN, second \in BOOLEAN, frs \in HopRuleLists }

NoHopGraph == [raised |-> FALSE, is_SBB |-> FALSE, edges |-> {},
               flowrules |-> <<>>]

NoSbTree == [ports |-> <<>>, nfs |-> {}, flowtable |-> <<>>]

\* Nothing at hand.
InitSb == sb = [pc |-> "idle", tree |-> NoSbTree, graph |-> NoHopGraph,
                create_sg_hops |-> FALSE, raised |-> FALSE, hops |-> <<>>]

\* A graph at hand.
InitSbGraph ==
  \E g \in HopGraphs :
    sb = [pc |-> "graph", tree |-> NoSbTree, graph |-> g,
          create_sg_hops |-> TRUE, raised |-> FALSE, hops |-> <<>>]

\* _parse_sghops_from_flowrules(nffg) on the graph at hand
ParseSghops ==
  /\ sb.pc = "graph"
  /\ \E out \in {ParseSghopsFromFlowrules(sb.graph)} :
       sb' = [sb EXCEPT !.pc = "hops", !.raised = out.raised,
                        !.hops = out.hops]
  /\ UNCHANGED notSbVars

NextHops == ParseSghops

(***************************************************************************)
(* Trees of a single BiSBiS that are parsed                                *)
(***************************************************************************)

SapName(sap_id) == SAP_NAME_PREFIX \o <<":">> \o sap_id

\* The ports of the node: two port-sap ports, with numbers or with names as
\* their ids, and a port without a port_type.
SbPortIds == { [p1 |-> <<"1">>, p2 |-> <<"2">>, p3 |-> <<"9">>],
               [p1 |-> <<"p", "a">>, p2 |-> <<"p", "b">>,
                p3 |-> <<"p", "x">>] }

SbPorts(ids) ==
  << [id |-> ids.p1, port_type |-> TYPE_VIRTUALIZER_PORT_SAP,
      name |-> SapName(SAP1), sap |-> NoneS],
     [id |-> ids.p2, port_type |-> TYPE_VIRTUALIZER_PORT_SAP,
      name |-> SapName(SAP2), sap |-> NoneS],
     [id |-> ids.p3, port_type |-> NoneS, name |-> NoneS, sap |-> NoneS] >>

\* References of a flow entry: to a port of the node, to the port of an NF
\* (of the node, or one that has no dynamic link here), and a leafref with
\* no target.
PortRef(pid) == [id |-> pid, nf |-> NoneS, target |-> TRUE]

NfRef(nf) == [id |-> NF_PORT_ID, nf |-> nf, target |-> TRUE]

DanglingRef == [id |-> <<"z", "z">>, nf |-> NoneS, target |-> FALSE]

FOREIGN_NF == <<"f", "x">>

SbFlowentryOf(id, port, out, delay) ==
  [id |-> id, port |-> port, out |-> out, match |-> NoneS,
   action |-> NoneS, delay |-> delay, bandwidth |-> NoneS,
   constraints |-> <<id>>]

SbFlowtables(ids) ==
  LET firsts == { SbFlowentryOf(<<"1", "0">>, port, out, delay) :
                    port \in {PortRef(ids.p1), NfRef(NF_ID), DanglingRef,
                              PortRef(ids.p3), NfRef(FOREIGN_NF)},
                    out \in {PortRef(ids.p2), NfRef(NF_ID)},
                    delay \in {NoneS, <<"7">>} }
      seconds == { SbFlowentryOf(<<"2", "0">>, port, PortRef(ids.p1), NoneS) :
                     port \in {PortRef(ids.p2), NfRef(NF_ID)} }
  IN { <<e1>> : e1 \in firsts }
     \cup { <<e1, e2>> : e1 \in firsts, e2 \in seconds }
     \cup { <<e2, e1>> : e1 \in firsts, e2 \in seconds }

SbTrees ==
  { [ports |-> SbPorts(ids), nfs |-> {NF_ID}, flowtable |-> ft] :
    ids \in SbPortIds, ft \in UNION {SbFlowtables(i) : i \in SbPortIds} }

\* The flow entries of a tree refer to ports of the tree.
SbWellFormed(t) ==
  \A k \in 1..Len(t.flowtable) :
    \A ref \in {t.flowtable[k].port, t.flowtable[k].out} :
      (ref.target /\ ref.nf = NoneS) =>
        \E i \in 1..Len(t.ports) : t.ports[i].id = ref.id

\* A tree at hand.
InitSbTree ==
  \E t \in {u \in SbTrees : SbWellFormed(u)} :
    sb = [pc |-> "tree", tree |-> t, graph |-> NoHopGraph,
          create_sg_hops |-> FALSE, raised |-> FALSE, hops |-> <<>>]

\* parse_from_Virtualizer(vdata, create_sg_hops) on the tree at hand
ParseSbTree(create_sg_hops) ==
  /\ sb.pc = "tree"
  /\ \E g \in {ParseSbb(conv, sb.tree)} :
       \E out \in {IF create_sg_hops /\ ~g.raised
                     THEN ParseSghopsFromFlowrules(g)
                     ELSE [raised |-> FALSE, hops |-> <<>>]} :
         sb' = [sb EXCEPT
                  !.pc = IF g.raised \/ out.raised THEN "aborted"
                         ELSE "parsed",
                  !.create_sg_hops = create_sg_hops,
                  !.graph = g, !.raised = g.raised \/ out.raised,
                  !.hops = out.hops]
  /\ UNCHANGED notSbVars

ParseSbTreeAny == \E create_sg_hops \in BOOLEAN : ParseSbTree(create_sg_hops)

NextSbb == ParseSbTreeAny

(***************************************************************************)
(* Service requests converted on a base tree                               *)
(* A tree is held by reference: heap[ref] is the tree of the reference     *)
(* ref, and NoRef stands for None. The tree of a topology view is          *)
(*   [id, name, relative, node, nfs, flowtable, constraints, metadata]:    *)
(*   relative   the leafrefs of the tree are relative paths                *)
(*   node       the tree has its BiSBiS node                               *)
(*   nfs        the ids of the NF instances of the node                    *)
(*   flowtable  the ids of the flow entries of the node                    *)
(*   constraints, metadata  the ids of the constraints of the node and     *)
(*              the keys of the metadata of the tree                       *)
(* A request is [id, name, nfs, sg_hops, reqs, metadata]: a hop is         *)
(* [id, nfs], nfs the NFs that its ports belong to, and a requirement is   *)
(* [id, same_node], same_node for src and dst on the same node.            *)
(***************************************************************************)

NoRef == 0

Store(heap, ref, tree) == [heap EXCEPT ![ref] = tree]

\* tree.full_copy(): a new tree with the content of the tree.
FullCopy(heap, ref) ==
  [heap |-> Append(heap, heap[ref]), ref |-> Len(heap) + 1]

\* clear_installed_elements
ClearInstalledElements(t) == [t EXCEPT !.nfs = {}, !.flowtable = {}]

SBB_ID == <<"S", "i", "n", "g", "l", "e", "B", "i", "S", "B", "i", "S">>

SBB_NAME == <<"S", "i", "n", "g", "l", "e", "-", "B", "i", "S", "B", "i", "S", "-", "V", "i", "e", "w">>

\* _generate_sbb_base
GenerateSbbBase(request) ==
  [id |-> SBB_ID, name |-> SBB_NAME, relative |-> FALSE, node |-> TRUE,
   nfs |-> {}, flowtable |-> {}, constraints |-> {}, metadata |-> {}]

\* _convert_nffg_reqs: the constraints added for the requirements of the
\* request; a requirement between two nodes is left out.
ReqConstraints(request) ==
  {<<"d", "e", "l", "a", "y", "-">> \o req.id :
     req \in {x \in request.reqs : x.same_node}}

\* A port of a hop is looked up in an NF that the node does not have:
\* KeyError.
PortMissing(t, request) ==
  \E hop \in request.sg_hops : ~(hop.nfs \subseteq t.nfs)

\* The outcome of an operation that returns the tree of the reference.
SrReturned(heap, ref, tree) ==
  [raised |-> FALSE, heap |-> Store(heap, ref, tree), ret |-> ref]

\* The outcome of an operation that raised while it worked on the tree.
SrRaised(heap, ref, tree) ==
  [raised |-> TRUE, heap |-> Store(heap, ref, tree), ret |-> NoRef]

\* Mutation: the installed elements of the base are cleared whether
\* reinstall is set or not.
ConvertServiceRequestInit_Mut(heap, request, base, reinstall) ==
  LET cp == IF base # NoRef THEN FullCopy(heap, base)
            ELSE [heap |-> Append(heap, GenerateSbbBase(request)),
                  ref |-> Len(heap) + 1]
      copied == cp.heap[cp.ref]
      cleared == IF base # NoRef
                   THEN ClearInstalledElements(copied) ELSE copied
      named == [cleared EXCEPT !.id = request.id, !.name = request.name]
      with_nfs == [named EXCEPT !.nfs = @ \cup request.nfs]
      done == [with_nfs EXCEPT
                 !.flowtable = @ \cup {hop.id : hop \in request.sg_hops},
                 !.constraints = @ \cup ReqConstraints(request),
                 !.metadata = @ \cup request.metadata,
                 !.relative = TRUE]
  IN IF ~named.node THEN SrReturned(cp.heap, cp.ref, named)
     ELSE IF PortMissing(with_nfs, request)
       THEN SrRaised(cp.heap, cp.ref, with_nfs)
     ELSE SrReturned(cp.heap, cp.ref, done)

\* convert_service_request_init(request, base, reinstall)
ConvertServiceRequestInit(heap, request, base, reinstall) ==
  LET cp == IF base # NoRef THEN FullCopy(heap, base)
            ELSE [heap |-> Append(heap, GenerateSbbBase(request)),
                  ref |-> Len(heap) + 1]
      copied == cp.heap[cp.ref]
      cleared == IF base # NoRef /\ reinstall
                   THEN ClearInstalledElements(copied) ELSE copied
      named == [cleared EXCEPT !.id = request.id, !.name = request.name]
      with_nfs == [named EXCEPT !.nfs = @ \cup request.nfs]
      done == [with_nfs EXCEPT
                 !.flowtable = @ \cup {hop.id : hop \in request.sg_hops},
                 !.constraints = @ \cup ReqConstraints(request),
                 !.metadata = @ \cup request.metadata,
                 !.relative = TRUE]
  IN IF ~named.node THEN SrReturned(cp.heap, cp.ref, named)
     ELSE IF PortMissing(with_nfs, request)
       THEN SrRaised(cp.heap, cp.ref, with_nfs)
     ELSE SrReturned(cp.heap, cp.ref, done)

\* Mutation: the request is deleted from the base tree itself.
ConvertServiceRequestDel_Mut(heap, request, base) ==
  LET named == [heap[base] EXCEPT !.id = request.id, !.name = request.name]
      done == [named EXCEPT
                 !.nfs = @ \ request.nfs,
                 !.flowtable = @ \ {hop.id : hop \in request.sg_hops}]
  IN IF ~named.node THEN SrRaised(heap, base, named)
     ELSE SrReturned(heap, base, done)

\* convert_service_request_del(request, base)
ConvertServiceRequestDel(heap, request, base) ==
  LET cp == FullCopy(heap, base)
      copied == cp.heap[cp.ref]
      named == [copied EXCEPT !.id = request.id, !.name = request.name]
      done == [named EXCEPT
                 !.nfs = @ \ request.nfs,
                 !.flowtable = @ \ {hop.id : hop \in request.sg_hops}]
  IN IF ~named.node THEN SrRaised(cp.heap, cp.ref, named)
     ELSE SrReturned(cp.heap, cp.ref, done)

\* adapt_mapping_into_Virtualizer(virtualizer, nffg, reinstall): the NFs
\* of the graph run on the node and its flow rules have the ids of the hops.
AdaptMappingIntoVirtualizer(heap, nffg, virtualizer, reinstall) ==
  LET cp == FullCopy(heap, virtualizer)
      copied == cp.heap[cp.ref]
      cleared == IF reinstall THEN ClearInstalledElements(copied) ELSE copied
      done == [cleared EXCEPT
                 !.nfs = @ \cup nffg.nfs,
                 !.flowtable = @ \cup {hop.id : hop \in nffg.sg_hops},
                 !.constraints = @ \cup ReqConstraints(nffg),
                 !.relative = TRUE]
  IN IF ~cleared.node
       THEN SrReturned(cp.heap, cp.ref, [cleared EXCEPT !.relative = TRUE])
     ELSE SrReturned(cp.heap, cp.ref, done)

\* tree.convert_leafrefs_to_relative_path()
ConvertLeafrefsToRelativePath(t) == [t EXCEPT !.relative = TRUE]

\* base.diff(derived): the fragment with what the derived tree changes,
\* adds and removes. The flow entries hold leafrefs, so a flow entry of
\* both trees is changed when the trees differ in the kind of their paths.
Diff(base, derived) ==
  [id |-> IF derived.id = base.id THEN NoneS ELSE derived.id,
   name |-> IF derived.name = base.name THEN NoneS ELSE derived.name,
   nfs_added |-> derived.nfs \ base.nfs,
   nfs_removed |-> base.nfs \ derived.nfs,
   flowtable_added |-> derived.flowtable \ base.flowtable,
   flowtable_removed |-> base.flowtable \ derived.flowtable,
   flowtable_changed |-> IF derived.relative = base.relative THEN {}
                         ELSE derived.flowtable \cap base.flowtable,
   constraints_added |-> derived.constraints \ base.constraints,
   constraints_removed |-> base.constraints \ derived.constraints,
   metadata_added |-> derived.metadata \ base.metadata,
   metadata_removed |-> base.metadata \ derived.metadata]

EmptyFragment ==
  [id |-> NoneS, name |-> NoneS, nfs_added |-> {}, nfs_removed |-> {},
   flowtable_added |-> {}, flowtable_removed |-> {}, flowtable_changed |-> {},
   constraints_added |-> {}, constraints_removed |-> {},
   metadata_added |-> {}, metadata_removed |-> {}]

\* Mutation: the id and the name of the base are left as they are.
SetIdAndName_Mut(base, derived) == base

\* virt_topo.id.set_value(srv_virtualizer.id.get_value()) and the same for
\* the name
SetIdAndName(base, derived) ==
  [base EXCEPT !.id = derived.id, !.name = derived.name]

\* _convert_service_request(service_graph, virt_topo, delete) with
\* ENABLE_DIFF: [raised, heap, ret, frag], ret = NoRef when nothing is
\* returned.
ConvertServiceRequest(heap, service_graph, virt_topo, delete) ==
  LET r == IF ~delete
             THEN ConvertServiceRequestInit(heap, service_graph, virt_topo,
                                            FALSE)
             ELSE ConvertServiceRequestDel(heap, service_graph, virt_topo)
      srv == r.ret
      h1 == Store(r.heap, virt_topo,
                  ConvertLeafrefsToRelativePath(r.heap[virt_topo]))
      h2 == Store(h1, srv, ConvertLeafrefsToRelativePath(h1[srv]))
      h3 == Store(h2, virt_topo, SetIdAndName(h2[virt_topo], h2[srv]))
  IN IF virt_topo = NoRef
       THEN [raised |-> FALSE, heap |-> heap, ret |-> NoRef,
             frag |-> EmptyFragment]
     ELSE IF r.raised
       THEN [raised |-> TRUE, heap |-> r.heap, ret |-> NoRef,
             frag |-> EmptyFragment]
     ELSE [raised |-> FALSE, heap |-> h3, ret |-> srv,
           frag |-> Diff(h3[virt_topo], h3[srv])]

NF1 == <<"n", "1">>

NF2 == <<"n", "2">>

\* The hop 1 leads from a SAP to n1, the hop 2 from n1 to n2.
Hop1 == [id |-> <<"1">>, nfs |-> {NF1}]

Hop2 == [id |-> <<"2">>, nfs |-> {NF1, NF2}]

\* The topology views: with or without their BiSBiS node, with any NFs
\* and the flow entries between them.
SrTrees ==
  { t \in [id : {<<"t", "o", "p", "o">>}, name : {<<"T">>},
           relative : BOOLEAN, node : BOOLEAN,
           nfs : SUBSET {NF1, NF2}, flowtable : SUBSET {Hop1.id, Hop2.id},
           constraints : {{}, {<<"c", "0">>}},
           metadata : {{}, {<<"k", "0">>}}] :
      /\ ~t.node => t.nfs = {} /\ t.flowtable = {} /\ t.constraints = {}
      /\ \A hop \in {Hop1, Hop2} :
           hop.id \in t.flowtable => hop.nfs \subseteq t.nfs }

\* The service requests.
SrRequests ==
  [id : {<<"r", "e", "q">>}, name : {<<"R">>}, nfs : SUBSET {NF1, NF2},
   sg_hops : SUBSET {Hop1, Hop2},
   reqs : {{}, {[id |-> <<"r", "1">>, same_node |-> TRUE]},
           {[id |-> <<"r", "2">>, same_node |-> FALSE]}},
   metadata : {{}, {<<"k", "1">>}}]

NoRequest ==
  [id |-> NoneS, name |-> NoneS, nfs |-> {}, sg_hops |-> {}, reqs |-> {},
   metadata |-> {}]

\* Nothing at hand.
InitSr ==
  sr = [pc |-> "idle", op |-> "none", heap |-> <<>>, base |-> NoRef,
        given |-> FALSE, delete |-> FALSE, request |-> NoRequest,
        old |-> GenerateSbbBase(NoRequest), raised |-> FALSE, ret |-> NoRef,
        frag |-> EmptyFragment]

\* A topology view and a service request at hand.
InitSrBase ==
  \E t \in SrTrees, request \in SrRequests :
    sr = [pc |-> "idle", op |-> "none", heap |-> <<t>>, base |-> 1,
          given |-> FALSE, delete |-> FALSE, request |-> request,
          old |-> t, raised |-> FALSE, ret |-> NoRef,
          frag |-> EmptyFragment]

\* The state after an operation with the outcome r.
SrDone(op, given, delete, r, frag) ==
  [sr EXCEPT !.pc = "done", !.op = op, !.given = given, !.delete = delete,
             !.heap = r.heap, !.raised = r.raised, !.ret = r.ret,
             !.frag = frag]

\* convert_service_request_init on the base tree or on no base
ConvertInit(given, reinstall) ==
  /\ sr.pc = "idle"
  /\ sr' = SrDone("init", given, FALSE,
                  ConvertServiceRequestInit(sr.heap, sr.request,
                    IF given THEN sr.base ELSE NoRef, reinstall),
                  EmptyFragment)
  /\ UNCHANGED notSrVars

ConvertInitAny == \E given \in BOOLEAN, reinstall \in BOOLEAN :
                    ConvertInit(given, reinstall)

\* convert_service_request_del on the base tree
ConvertDel ==
  /\ sr.pc = "idle"
  /\ sr' = SrDone("del", TRUE, TRUE,
                  ConvertServiceRequestDel(sr.heap, sr.request, sr.base),
                  EmptyFragment)
  /\ UNCHANGED notSrVars

\* convert_service_request_del on the tree that
\* convert_service_request_init returned for the base tree
ConvertInitDel ==
  /\ sr.pc = "idle"
  /\ \E r \in {ConvertServiceRequestInit(sr.heap, sr.request, sr.base,
                                         FALSE)} :
       sr' = SrDone("init_del", TRUE, TRUE,
                    IF r.raised THEN r
                    ELSE ConvertServiceRequestDel(r.heap, sr.request, r.ret),
                    EmptyFragment)
  /\ UNCHANGED notSrVars

\* adapt_mapping_into_Virtualizer on the base tree
AdaptMapping(reinstall) ==
  /\ sr.pc = "idle"
  /\ sr' = SrDone("adapt", TRUE, FALSE,
                  AdaptMappingIntoVirtualizer(sr.heap, sr.request, sr.base,
                                              reinstall),
                  EmptyFragment)
  /\ UNCHANGED notSrVars

AdaptMappingAny == \E reinstall \in BOOLEAN : AdaptMapping(reinstall)

\* _convert_service_request of the connector
SendServiceRequest(given, delete) ==
  /\ sr.pc = "idle"
  /\ LET r == ConvertServiceRequest(sr.heap, sr.request,
                                    IF given THEN sr.base ELSE NoRef, delete)
     IN sr' = SrDone("connector", given, delete, r, r.frag)
  /\ UNCHANGED notSrVars

SendServiceRequestAny == \E given \in BOOLEAN, delete \in BOOLEAN :
                           SendServiceRequest(given, delete)

NextSr == ConvertInitAny \/ ConvertDel \/ ConvertInitDel \/ AdaptMappingAny
          \/ SendServiceRequestAny

(***************************************************************************)
(* External ports: the flow entries that refer to ports of other domains   *)
(***************************************************************************)

\* No flow entry at hand.
InitXp == xp = [pc |-> "idle"]

\* The indexes at which the part starts in the text.
Occurrences(s, part) ==
  {i \in 1..(Len(s) - Len(part) + 1) : SubSeq(s, i, i + Len(part) - 1) = part}

EXT_SCHEME == <<":", "/", "/">>

EXT_NODE == <<"n", "o", "d", "e", "[", "i", "d", "=">>

EXT_PORT == <<"p", "o", "r", "t", "[", "i", "d", "=">>

\* "://" in text
IsExternal(text) == text # NoneS /\ HasInfix(text, EXT_SCHEME)

\* The only element of a set of one element.
TheOne(S) == CHOOSE x \in S : TRUE

\* The places of the text at which the parts of the pattern of
\* __parse_external_port can match: a "port[id=" with a "]" after it, a
\* "node[id=" with a "]" and such a port after it, a "://" with such a node
\* after it.
ExternalPlaces(text) ==
  TheOne({ TheOne({ TheOne({
    [closes |-> closes, ports |-> ports, nodes |-> nodes,
     schemes |-> {a \in Occurrences(text, EXT_SCHEME) :
                    \E b \in nodes : b >= a + Len(EXT_SCHEME)}] :
      nodes \in {{b \in Occurrences(text, EXT_NODE) :
                    \E c \in closes : /\ c >= b + Len(EXT_NODE)
                                      /\ \E d \in ports : d > c}} }) :
      ports \in {{d \in Occurrences(text, EXT_PORT) :
                    \E e \in closes : e >= d + Len(EXT_PORT)}} }) :
      closes \in {Occurrences(text, <<"]">>)} })

\* __parse_external_port: re.match of
\* (.*)://.*node\[id=(.*?)\].*port\[id=(.*?)\].* on the text. A greedy .*
\* ends at the last place from which the rest still matches, a lazy .*? at
\* the first. Without a match res is None and res.groups() raises.
ParseExternalPort(text) ==
  TheOne({
    IF at.schemes = {}
      THEN [raised |-> TRUE, domain |-> NoneS, node |-> NoneS,
            port |-> NoneS]
    ELSE TheOne({ TheOne({ TheOne({ TheOne({ TheOne({
           [raised |-> FALSE, domain |-> SubSeq(text, 1, a - 1),
            node |-> SubSeq(text, b + Len(EXT_NODE), c - 1),
            port |-> SubSeq(text, d + Len(EXT_PORT), e - 1)] :
             e \in {Min({x \in at.closes : x >= d + Len(EXT_PORT)})} }) :
             d \in {Max({x \in at.ports : x > c})} }) :
             c \in {Min({x \in at.closes :
                           /\ x >= b + Len(EXT_NODE)
                           /\ \E y \in at.ports : y > x})} }) :
             b \in {Max({x \in at.nodes : x >= a + Len(EXT_SCHEME)})} }) :
             a \in {Max(at.schemes)} }) :
    at \in {ExternalPlaces(text)} })

\* "EXTERNAL:%s" % ext_port
ExternalId(ext_port) == EXTERNAL \o <<":">> \o ext_port

\* vport_id in bb_node.ports: a port of the infra has the id.
HasExternalPort(g, vport_id) ==
  \E i \in 1..Len(g.ports) : SamePortId(g.ports[i].id, vport_id)

\* vport_id in nffg and vport_id in nffg[vport_id].ports
HasExternalSap_Mut(g, vport_id) == FALSE

HasExternalSap(g, vport_id) ==
  /\ vport_id \in g.saps
  /\ \E i \in 1..Len(g.sap_ports) :
       g.sap_ports[i].node = vport_id /\ g.sap_ports[i].id = vport_id

\* bb_node.add_port(id=vport_id) with its role and properties, unless the
\* port is there.
AddExternalPort(g, text, parsed) ==
  IF HasExternalPort(g, ExternalId(parsed.port)) THEN g
  ELSE [g EXCEPT !.ports =
          Append(@, [id |-> StrId(ExternalId(parsed.port)),
                     role |-> EXTERNAL, domain |-> parsed.domain,
                     node |-> parsed.node,
                     port |-> ParsedPortId(parsed.port), path |-> text])]

\* nffg.add_sap(id=vport_id) with its port and the link to the port of the
\* infra, unless the SAP with its port is there.
AddExternalSap(g, text, vport_id) ==
  IF HasExternalSap(g, vport_id) THEN g
  ELSE [g EXCEPT
          !.saps = @ \cup {vport_id},
          !.sap_ports = Append(@, [node |-> vport_id, id |-> vport_id,
                                   role |-> EXTERNAL, path |-> text]),
          !.links = Append(@, [src |-> StrId(vport_id), dst |-> vport_id])]

\* The branch of an external in port or out port reference.
ExternalPort(g, text) ==
  TheOne({
    IF parsed.raised THEN [raised |-> TRUE, g |-> g, id |-> NoneS]
    ELSE TheOne({
           [raised |-> FALSE,
            g |-> AddExternalSap(g1, text, ExternalId(parsed.port)),
            id |-> ExternalId(parsed.port)] :
             g1 \in {AddExternalPort(g, text, parsed)} }) :
    parsed \in {ParseExternalPort(text)} })

\* The in port and the out port of a flow entry: the graph after the
\* reference is looked at and the text after in_port= / output=.
XpPortOf(g, ref) ==
  IF IsExternal(ref.text) THEN ExternalPort(g, ref.text)
  ELSE [raised |-> FALSE, g |-> g, id |-> ref.id]

\* The end of a turn of the loop for a flow entry with its in port and its
\* out port: the port is looked up and the flow rule is added to it.
XpAddFlowrule(fe, inp, out) ==
  TheOne({
    IF PortLookup([i \in 1..Len(out.g.ports) |-> out.g.ports[i].id],
                  vport) = "raise"
      THEN [turn |-> "raise", g |-> out.g]
    ELSE [turn |-> "ok",
          g |-> [out.g EXCEPT !.flowrules =
                   Append(@, [id |-> PyInt(fe.id).val, port |-> vport,
                              match |-> OP_INPORT \o <<"=">> \o inp.id,
                              action |-> OP_OUTPUT \o <<"=">> \o out.id,
                              external |-> IsExternal(fe.port.text)
                                           \/ IsExternal(fe.out.text)])]] :
    vport \in {IF IsExternal(fe.port.text) THEN StrId(inp.id)
               ELSE ParsedPortId(fe.port.id)} })

\* One turn of the loop of _parse_virtualizer_node_flowentries over flow
\* entries without match and action operands: "ok" with the flow rule added
\* to its port, "continue" or "raise", and the graph after the turn.
XpFlowentry(g, fe) ==
  IF ~PyInt(fe.id).ok THEN [turn |-> "continue", g |-> g]
  ELSE IF fe.port.text = NoneS THEN [turn |-> "continue", g |-> g]
  ELSE TheOne({
    IF inp.raised THEN [turn |-> "raise", g |-> g]
    ELSE IF ~IsExternal(fe.port.text) /\ ~fe.port.target
      THEN [turn |-> "continue", g |-> g]
    ELSE IF fe.out.text = NoneS THEN [turn |-> "continue", g |-> inp.g]
    ELSE TheOne({
      IF out.raised THEN [turn |-> "raise", g |-> inp.g]
      ELSE IF ~IsExternal(fe.out.text) /\ ~fe.out.target
        THEN [turn |-> "continue", g |-> inp.g]
      ELSE XpAddFlowrule(fe, inp, out) :
      out \in {XpPortOf(inp.g, fe.out)} }) :
    inp \in {XpPortOf(g, fe.port)} })

\* The loop over the flow table: the graph after the last turn, and whether
\* an exception left the loop.
RECURSIVE XpFlowtable(_, _)
XpFlowtable(g, flowtable) ==
  IF flowtable = <<>> THEN [raised |-> FALSE, g |-> g]
  ELSE TheOne({
    IF turn.turn = "raise" THEN [raised |-> TRUE, g |-> turn.g]
    ELSE XpFlowtable(turn.g, Tail(flowtable)) :
    turn \in {XpFlowentry(g, Head(flowtable))} })

\* The graph before the flow entries are parsed: the infra with its ports 1
\* and 2, no external SAP, no flow rule.
XpGraph ==
  [ports |-> << [id |-> IntId(1), role |-> NoneS, domain |-> NoneS,
                 node |-> NoneS, port |-> IntId(1), path |-> NoneS],
                [id |-> IntId(2), role |-> NoneS, domain |-> NoneS,
                 node |-> NoneS, port |-> IntId(2), path |-> NoneS] >>,
   saps |-> {}, sap_ports |-> <<>>, links |-> <<>>, flowrules |-> <<>>]

\* References of a flow entry: to a port of another domain, to a port of
\* the node, a leafref with no target, and an attribute that is not there.
XpExternalRef(text) == [text |-> text, id |-> NoneS, target |-> FALSE]

XpLocalRef(id) ==
  [text |-> <<"p", "o", "r", "t", "s", "/", "p", "o", "r", "t", "[", "i", "d", "=">> \o id \o <<"]">>, id |-> id, target |-> TRUE]

XpDanglingRef ==
  [text |-> <<"p", "o", "r", "t", "s", "/", "p", "o", "r", "t", "[", "i", "d", "=">> \o <<"z", "]">>, id |-> <<"z">>, target |-> FALSE]

XpNoRef == [text |-> NoneS, id |-> NoneS, target |-> FALSE]

\* The port 7 of the node n of the domain d, the port 7 of the node m of
\* the domain e, the port x of the node n of the domain d.
EXT_D_N_7 == <<"d", ":", "/", "/", "n", "o", "d", "e", "[", "i", "d", "=", "n", "]", "/", "p", "o", "r", "t", "[", "i", "d", "=", "7", "]">>

EXT_E_M_7 == <<"e", ":", "/", "/", "n", "o", "d", "e", "[", "i", "d", "=", "m", "]", "/", "p", "o", "r", "t", "[", "i", "d", "=", "7", "]">>

EXT_D_N_X == <<"d", ":", "/", "/", "n", "o", "d", "e", "[", "i", "d", "=", "n", "]", "/", "p", "o", "r", "t", "[", "i", "d", "=", "x", "]">>

XpInPorts ==
  { XpExternalRef(EXT_D_N_7), XpExternalRef(EXT_E_M_7),
    XpExternalRef(EXT_D_N_X), XpLocalRef(<<"1">>), XpLocalRef(<<"9">>),
    XpDanglingRef, XpNoRef }

XpOutPorts ==
  { XpExternalRef(EXT_D_N_7), XpExternalRef(EXT_D_N_X), XpLocalRef(<<"2">>),
    XpNoRef }

\* One or two flow entries.
XpFlowtables ==
  LET entries(id) == { [id |-> id, port |-> port, out |-> out] :
                         port \in XpInPorts, out \in XpOutPorts }
  IN { <<e1>> : e1 \in entries(<<"1", "0">>) }
     \cup { <<e1, e2>> : e1 \in entries(<<"1", "0">>),
                         e2 \in entries(<<"2", "0">>) }

\* A flow table at hand.
InitXpTree ==
  \E ft \in XpFlowtables :
    xp = [pc |-> "tree", flowtable |-> ft, graph |-> XpGraph]

\* _parse_virtualizer_node_flowentries on the flow table at hand
ParseXpFlowtable ==
  /\ xp.pc = "tree"
  /\ \E out \in {XpFlowtable(xp.graph, xp.flowtable)} :
       xp' = [xp EXCEPT !.pc = IF out.raised THEN "aborted" ELSE "parsed",
                        !.graph = out.g]
  /\ UNCHANGED notXpVars

NextXp == ParseXpFlowtable

(***************************************************************************)
(* Connector and ServiceManager                                            *)
(***************************************************************************)

\* No connector at hand.
InitSm == sm = [pc |-> "idle"]

STATUS_INIT == "init"

STATUS_START == "start"

STATUS_ERROR == "error_creating"

STATUS_STOPPED == "stopped"

\* The ids of the service instances, in the order they are created.
InstanceIds == {1, 2}

\* ServiceInstance.__touch: the time of the call is returned.
Touch(now) == now

\* ServiceInstance.__init__. changed_at is not a field of the class: it
\* notes the time of the last assignment to the status.
NewServiceInstance(instance_id, now) ==
  [id |-> instance_id, sg |-> FALSE, status |-> STATUS_INIT,
   vnf_addresses |-> {}, created_at |-> Touch(now),
   updated_at |-> Touch(now), changed_at |-> now]

\* The setter of ServiceInstance.status: the value that __touch returns is
\* dropped.
SetStatus(si, value, now) ==
  [si EXCEPT !.status = value, !.changed_at = now]

\* ServiceInstance.get_json
GetJson(si) ==
  [id |-> si.id, status |-> si.status, created_at |-> si.created_at,
   updated_at |-> si.updated_at, vnf_addresses |-> si.vnf_addresses]

\* The id of the NF of a service instance, tagged with the instance id.
TagNfId(instance_id) == instance_id

\* ServiceManager.__init__: objs holds every ServiceInstance object by its
\* id, instances the keys of __instances, vnf_cache the pairs of __vnf_cache;
\* nsds and services are the files of the two cache directories.
NewServiceManager ==
  [objs |-> <<>>, instances |-> {}, vnf_cache |-> {}, nsds |-> {},
   services |-> {}]

\* ServiceManager.convert_service with the outcome of converter.convert
\* (None for a failed conversion): the service graph is saved.
ConvertService(m, nsd, converted) ==
  IF converted THEN [ret |-> TRUE, m |-> [m EXCEPT !.services = @ \cup {nsd}]]
  ELSE [ret |-> FALSE, m |-> m]

\* ServiceManager.store_nsd: the path, None for a body that is no JSON or
\* has no nsd id.
StoreNsd(m, body) ==
  IF body.json /\ body.nsd_id
    THEN [ret |-> TRUE, m |-> [m EXCEPT !.nsds = @ \cup {body.ns}]]
    ELSE [ret |-> FALSE, m |-> m]

\* ServiceManager.instantiate_ns with the remote catalogue disabled:
\* ret is "none", "error" (an instance that is not stored) or "stored".
InstantiateNs(m, ns_id, converted, now) ==
  LET id == Len(m.objs) + 1
      si == NewServiceInstance(id, now)
      failed(mm) == [ret |-> "error", id |-> id,
                     m |-> [mm EXCEPT !.objs = Append(@,
                              SetStatus(si, STATUS_ERROR, now))]]
      saved == ConvertService(m, ns_id, converted)
      m1 == IF ns_id \in m.services THEN m ELSE saved.m
      loaded == SetStatus([si EXCEPT !.sg = TRUE], STATUS_INIT, now)
  IN IF ns_id \notin m.services /\ ns_id \notin m.nsds
       THEN [ret |-> "none", id |-> id, m |-> m]
     ELSE IF ns_id \notin m.services /\ ~saved.ret THEN failed(m)
     ELSE [ret |-> "stored", id |-> id,
           m |-> [m1 EXCEPT !.objs = Append(@, loaded),
                            !.instances = @ \cup {id},
                            !.vnf_cache = @ \cup {<<TagNfId(id), id>>}]]

\* ServiceManager.remove_service_instance
RemoveServiceInstance(m, id, now) ==
  IF id \in m.instances
    THEN [m EXCEPT !.instances = @ \ {id},
                   !.objs[id] = SetStatus(@, STATUS_STOPPED, now)]
    ELSE m

\* ServiceManager.set_service_status
SetServiceStatus(m, id, status, now) ==
  IF id \notin m.instances THEN m
  ELSE [m EXCEPT !.objs[id] = SetStatus(@, status, now)]

\* ServiceManager.get_services_status
GetServicesStatus(m) == {GetJson(m.objs[id]) : id \in m.instances}

\* ServiceManager.update_si_addresses_from_ro with the NF ids that have an
\* address in the topology: get_service returns None for an id that is not
\* managed, and None has no status (AttributeError).
UpdateSiAddressesFromRo(m, vnf_address) ==
  LET cached == {vnf_id \in vnf_address :
                   \E pair \in m.vnf_cache : pair[1] = vnf_id}
      si_id(vnf_id) == (CHOOSE pair \in m.vnf_cache : pair[1] = vnf_id)[2]
      started == {vnf_id \in cached :
                    /\ si_id(vnf_id) \in m.instances
                    /\ m.objs[si_id(vnf_id)].status = STATUS_START}
  IN IF \E vnf_id \in cached : si_id(vnf_id) \notin m.instances
       THEN [raised |-> TRUE, m |-> m]
     ELSE [raised |-> FALSE,
           m |-> [m EXCEPT !.objs =
                    [id \in DOMAIN m.objs |->
                       [m.objs[id] EXCEPT !.vnf_addresses =
                          @ \cup {v \in started : si_id(v) = id}]]]]

NS_ID == "ns1"

NoBody == [id |-> 0]

\* The answer of a handler: the HTTP status code, the body, the requests
\* that the handler sent to the RO, and whether it was left by an exception
\* that nothing catches (answered with 500 by the framework).
Answer(m, code, body, sent) ==
  [m |-> m, code |-> code, body |-> body, sent |-> sent, raised |-> FALSE]

Uncaught(m, sent) ==
  [m |-> m, code |-> 500, body |-> NoBody, sent |-> sent, raised |-> TRUE]

\* register_nsd (POST /nsd)
RegisterNsdOf(c, body, converted) ==
  LET stored == StoreNsd(c.m, body)
      saved == ConvertService(stored.m, body.ns, converted)
  IN IF ~stored.ret THEN Answer(stored.m, 202, NoBody, {})
     ELSE IF ~saved.ret THEN Answer(saved.m, 500, NoBody, {})
     ELSE Answer(saved.m, 202, NoBody, {})

\* What the RO does with a service request: it accepts it (202, or a 2xx
\* callback), refuses it with another code, lets the callback time out,
\* cannot be reached, exceeds the timeout, or something else is raised.
RoOutcomes ==
  {"accepted", "refused", "cb_timeout", "unreachable", "timeout", "exception"}

\* initiate_service (POST /service)
InitiateServiceOf(c, body, converted, topo, request_raises, ro) ==
  LET now == c.clock
      later == c.clock + 1
      inst == InstantiateNs(c.m, NS_ID, converted, now)
      id == inst.id
      error(m, when) == SetServiceStatus(m, id, STATUS_ERROR, when)
      json(m) == GetJson(m.objs[id])
      asked == {"topology"}
      sent == {"topology", "add"}
      start == SetServiceStatus(inst.m, id, STATUS_START, later)
  IN IF ~body.json \/ ~body.ns_id THEN Answer(c.m, 400, NoBody, {})
     ELSE IF inst.ret # "stored" THEN Answer(inst.m, 500, NoBody, {})
     ELSE IF ~inst.m.objs[id].sg
       THEN Answer(error(inst.m, now), 404, NoBody, {})
     ELSE IF ~topo THEN Answer(inst.m, 500, NoBody, asked)
     ELSE IF c.USE_VIRTUALIZER_FORMAT /\ request_raises
       THEN Uncaught(inst.m, asked)
     ELSE IF ro = "accepted"
       THEN Answer(start, IF c.USE_CALLBACK THEN 200 ELSE 202, json(start),
                   sent)
     ELSE IF ro = "refused"
       THEN Answer(error(inst.m, later), 404, json(error(inst.m, later)),
                   sent)
     ELSE IF ro = "cb_timeout"
       THEN Answer(error(inst.m, later), 408, json(error(inst.m, later)),
                   sent)
     ELSE IF ro \in {"unreachable", "timeout"}
       THEN Answer(error(inst.m, later), 500, NoBody, sent)
     ELSE Answer(error(inst.m, later), 400, NoBody, sent)

IsRunning_Mut(si) == si.status # STATUS_STOPPED

\* The status that makes terminate_service ask the RO for the deletion.
IsRunning(si) == si.status = STATUS_START

\* terminate_service (PUT /ns-instances/<id>/terminate)
TerminateServiceOf(c, instance_id, topo, request_raises, ro) ==
  LET later == c.clock + 1
      removed == RemoveServiceInstance(c.m, instance_id, c.clock)
      gone == RemoveServiceInstance(c.m, instance_id, later)
      error == SetServiceStatus(c.m, instance_id, STATUS_ERROR, later)
      stopped == SetServiceStatus(c.m, instance_id, STATUS_STOPPED, later)
      json(m) == GetJson(m.objs[instance_id])
      asked == IF c.USE_VIRTUALIZER_FORMAT THEN {"topology"} ELSE {}
      sent == asked \cup {"delete"}
  IN IF instance_id \notin c.m.instances THEN Answer(c.m, 404, NoBody, {})
     ELSE IF ~IsRunning(c.m.objs[instance_id])
       THEN Answer(removed, 200, json(removed), {})
     ELSE IF ~c.m.objs[instance_id].sg THEN Answer(c.m, 404, NoBody, {})
     ELSE IF c.USE_VIRTUALIZER_FORMAT /\ ~topo
       THEN Answer(c.m, 500, NoBody, asked)
     ELSE IF c.USE_VIRTUALIZER_FORMAT /\ request_raises
       THEN Uncaught(c.m, asked)
     ELSE IF ro = "accepted"
       THEN IF c.USE_CALLBACK THEN Answer(stopped, 200, json(stopped), sent)
            ELSE Answer(gone, 200, json(gone), sent)
     ELSE IF ro = "refused" THEN Answer(error, 404, NoBody, sent)
     ELSE IF ro = "cb_timeout" THEN Answer(error, 408, NoBody, sent)
     ELSE Answer(c.m, 500, NoBody, sent)

\* list_service_instances (GET /ns-instances) with the dynamic update
\* enabled; vnf_address holds the NF ids with an address in the topology.
ListServiceInstancesOf(c, topo, vnf_address) ==
  LET updated == UpdateSiAddressesFromRo(c.m, vnf_address)
  IN IF ~topo THEN Answer(c.m, 200, GetServicesStatus(c.m), {"topology"})
     ELSE IF updated.raised THEN Uncaught(c.m, {"topology"})
     ELSE Answer(updated.m, 200, GetServicesStatus(updated.m), {"topology"})

NsdBodies ==
  { [json |-> FALSE, nsd_id |-> FALSE, ns |-> NS_ID],
    [json |-> TRUE, nsd_id |-> FALSE, ns |-> NS_ID],
    [json |-> TRUE, nsd_id |-> TRUE, ns |-> NS_ID] }

ServiceBodies ==
  { [json |-> FALSE, ns_id |-> FALSE], [json |-> TRUE, ns_id |-> FALSE],
    [json |-> TRUE, ns_id |-> TRUE] }

\* The connector after main(): a ServiceManager without instances, with
\* or without callbacks, in the Virtualizer or in the NFFG format.
InitSmRun ==
  \E use_callback \in BOOLEAN, use_virtualizer_format \in BOOLEAN :
    sm = [pc |-> "run", m |-> NewServiceManager, clock |-> 0,
          USE_CALLBACK |-> use_callback,
          USE_VIRTUALIZER_FORMAT |-> use_virtualizer_format,
          resp |-> [op |-> "none", id |-> 0, before |-> "none", code |-> 0,
                    body |-> NoBody, sent |-> {}, raised |-> FALSE,
                    ro |-> "none", was |-> NewServiceManager,
                    stored |-> FALSE, converted |-> FALSE]]

\* The state after a handler has answered: resp notes the operation, the
\* id it was about, the status of that instance before the call, what the
\* RO did, the manager before the call and, for register_nsd, whether
\* the body could be stored and the NSD converted.
SmAfter(op, id, ro, stored, converted, out) ==
  [sm EXCEPT
     !.m = out.m,
     !.clock = IF out.m.objs # sm.m.objs THEN @ + 1 ELSE @,
     !.resp = [op |-> op, id |-> id,
               before |-> IF id \in sm.m.instances
                            THEN sm.m.objs[id].status ELSE "none",
               code |-> out.code, body |-> out.body, sent |-> out.sent,
               raised |-> out.raised, ro |-> ro, was |-> sm.m,
               stored |-> stored, converted |-> converted]]

RegisterNsd ==
  /\ sm.pc = "run"
  /\ \E body \in NsdBodies, converted \in BOOLEAN :
       sm' = SmAfter("register_nsd", 0, "none", body.json /\ body.nsd_id,
                     converted, RegisterNsdOf(sm, body, converted))
  /\ UNCHANGED notSmVars

InitiateService ==
  /\ sm.pc = "run"
  /\ Len(sm.m.objs) < Cardinality(InstanceIds)
  /\ \E body \in ServiceBodies, converted \in BOOLEAN, topo \in BOOLEAN,
        request_raises \in BOOLEAN, ro \in RoOutcomes :
       /\ ro = "cb_timeout" => sm.USE_CALLBACK
       /\ \E out \in {InitiateServiceOf(sm, body, converted, topo,
                                       request_raises, ro)} :
            sm' = SmAfter("initiate_service",
                          IF Len(out.m.objs) > Len(sm.m.objs)
                            THEN Len(out.m.objs) ELSE 0,
                          IF "add" \in out.sent THEN ro ELSE "none",
                          FALSE, FALSE, out)
  /\ UNCHANGED notSmVars

TerminateService ==
  /\ sm.pc = "run"
  /\ \E instance_id \in InstanceIds, topo \in BOOLEAN,
        request_raises \in BOOLEAN, ro \in RoOutcomes :
       /\ ro = "cb_timeout" => sm.USE_CALLBACK
       /\ \E out \in {TerminateServiceOf(sm, instance_id, topo,
                                        request_raises, ro)} :
            sm' = SmAfter("terminate_service", instance_id,
                          IF "delete" \in out.sent THEN ro ELSE "none",
                          FALSE, FALSE, out)
  /\ UNCHANGED notSmVars

ListServiceInstances ==
  /\ sm.pc = "run"
  /\ \E topo \in BOOLEAN, vnf_address \in SUBSET {TagNfId(id) :
                                                   id \in InstanceIds} :
       sm' = SmAfter("list_service_instances", 0, "none", FALSE, FALSE,
                     ListServiceInstancesOf(sm, topo, vnf_address))
  /\ UNCHANGED notSmVars

NextSm == RegisterNsd \/ InitiateService \/ TerminateService
          \/ ListServiceInstances

(***************************************************************************)
(* Port attributes: the abstract port of a tree parsed into a graph port   *)
(***************************************************************************)

\* No port at hand.
InitVp == vp = [pc |-> "idle"]

\* The attributes of a tree port that __copy_vport_attrs looks at; NoneS
\* stands for an attribute that is not initialized. sap_data, its resources
\* and control are initialized when one of their leaves is.
SapDataResources == {"delay", "bandwidth", "cost", "qos"}

SapDataLeaves == {"technology", "role"} \cup SapDataResources

ControlLeaves == {"controller", "orchestrator"}

VportAttrs == {"name", "sap", "capability"} \cup SapDataLeaves
              \cup ControlLeaves

IsInitialized(vport, leaves) == \E leaf \in leaves : vport[leaf] # NoneS

\* infra.add_port(id=infra_port_id): a port with none of the attributes.
AddPort(infra_port_id) ==
  [id |-> infra_port_id, properties |-> {},
   attrs |-> [attr \in VportAttrs |-> NoneS]]

\* __copy_vport_attrs(port, vport) for a port without addresses, metadata
\* and operation tag. The role is read from sap_data.technology, and the
\* controller and the orchestrator from vport.conntrol, an attribute that
\* the tree port does not have (AttributeError).
CopyVportAttrs(port, vport) ==
  LET copied(leaf, from) ==
        IF vport[leaf] # NoneS THEN vport[from] ELSE port.attrs[leaf]
      p1 == [port EXCEPT
               !.attrs["name"] = copied("name", "name"),
               !.attrs["sap"] = copied("sap", "sap"),
               !.properties = IF vport["sap"] # NoneS
                                THEN @ \cup {<<"sap", vport["sap"]>>}
                                ELSE @,
               !.attrs["capability"] = copied("capability", "capability"),
               !.attrs["technology"] = copied("technology", "technology"),
               !.attrs["role"] = copied("role", "technology"),
               !.attrs["delay"] = copied("delay", "delay"),
               !.attrs["bandwidth"] = copied("bandwidth", "bandwidth"),
               !.attrs["cost"] = copied("cost", "cost"),
               !.attrs["qos"] = copied("qos", "qos")]
  IN IF IsInitialized(vport, ControlLeaves)
       THEN [raised |-> TRUE, port |-> p1]
       ELSE [raised |-> FALSE, port |-> p1]

\* The branch of _parse_virtualizer_node_ports for a port-abstract port.
ParseAbstractPortOf(vport) ==
  CopyVportAttrs(AddPort(ParsedPortId(vport["id"])), vport)

\* The tree ports: each attribute is there with a value of its own or is
\* not initialized.
Vports ==
  { [attr \in VportAttrs \cup {"id"} |->
       IF attr = "id" THEN id
       ELSE IF attr \in set THEN <<attr>> ELSE NoneS] :
    id \in {<<"1">>, <<"p", "a">>},
    set \in SUBSET (VportAttrs \ {"cost", "qos"}) }

NoVport == [attr \in VportAttrs \cup {"id"} |-> NoneS]

\* A port-abstract port at hand.
InitVpPort ==
  \E vport \in Vports :
    vp = [pc |-> "tree", v_port |-> vport, port |-> AddPort(StrId(NoneS)),
          raised |-> FALSE]

\* _parse_virtualizer_node_ports on the port at hand
ParseAbstractPort ==
  /\ vp.pc = "tree"
  /\ \E out \in {ParseAbstractPortOf(vp.v_port)} :
       vp' = [vp EXCEPT !.pc = IF out.raised THEN "aborted" ELSE "parsed",
                        !.port = out.port, !.raised = out.raised]
  /\ UNCHANGED notVpVars

NextVp == ParseAbstractPort

(***************************************************************************)
(* Specifications                                                          *)
(***************************************************************************)

Next == AllocateAny

NextConc == TagBeginAny \/ TagStoreAny

\* One converter with its defaults, an empty register and no flow rule.
InitSpec == InitTag /\ InitNsDefault /\ InitFc /\ InitRt /\ InitSb /\ InitSr
  /\ InitXp /\ InitSm /\ InitVp

\* The same with a register that is nearly exhausted.
InitSpecFull == InitTagFull /\ InitNsDefault /\ InitFc /\ InitRt /\ InitSb /\ InitSr
  /\ InitXp /\ InitSm /\ InitVp

\* A converter with any domain and any unique-id modes.
InitSpecNs == InitTag /\ InitNs /\ InitFc /\ InitRt /\ InitSb /\ InitSr
  /\ InitXp /\ InitSm /\ InitVp

\* A converter with its defaults and one flow rule on the node.
InitSpecFc == InitTag /\ InitNsDefault /\ InitFcRule /\ InitRt /\ InitSb /\ InitSr
  /\ InitXp /\ InitSm /\ InitVp

\* A converter with its defaults and a graph at hand.
InitSpecRt == InitTag /\ InitNsDefault /\ InitFc /\ InitRtGraph /\ InitSb /\ InitSr
  /\ InitXp /\ InitSm /\ InitVp

\* A converter with its defaults and the graph of a single BiSBiS at hand.
InitSpecHops == InitTag /\ InitNsDefault /\ InitFc /\ InitRt /\ InitSbGraph /\ InitSr
  /\ InitXp /\ InitSm /\ InitVp

\* A converter with its defaults and the tree of a single BiSBiS at hand.
InitSpecSbb == InitTag /\ InitNsDefault /\ InitFc /\ InitRt /\ InitSbTree /\ InitSr
  /\ InitXp /\ InitSm /\ InitVp

\* A converter with its defaults and a tree with resource values at hand.
InitSpecVal == InitTag /\ InitNsDefault /\ InitFc /\ InitRtTree /\ InitSb /\ InitSr
  /\ InitXp /\ InitSm /\ InitVp

\* A converter with its defaults, a topology view and a service request.
InitSpecSr == InitTag /\ InitNsDefault /\ InitFc /\ InitRt /\ InitSb /\ InitSrBase
  /\ InitXp /\ InitSm /\ InitVp

\* Sequential use of one converter, starting with an empty register.
Spec == InitSpec /\ [][Next]_vars

\* Sequential use of one converter whose register is nearly exhausted.
SpecFull == InitSpecFull /\ [][Next]_vars

\* Concurrent requests on one converter.
SpecConc == InitSpec /\ [][NextConc]_vars

\* Ids generated and recreated by one NFFGConverter.
SpecNs == InitSpecNs /\ [][NextNs]_vars

\* The same with disable_unique_bb_id called at any point.
SpecNsLife == InitSpecNs /\ [][NextNsLife]_vars

\* Flow rules dumped and parsed back by one NFFGConverter.
SpecFc == InitSpecFc /\ [][NextFc]_vars

\* Graphs dumped and parsed back by one NFFGConverter.
SpecRt == InitSpecRt /\ [][NextRt]_vars

\* Trees with any resource values parsed by one NFFGConverter.
SpecVal == InitSpecVal /\ [][NextVal]_vars

\* Service requests converted on a topology view.
SpecSr == InitSpecSr /\ [][NextSr]_vars

\* SG hops recreated from the flow rules of a graph.
SpecHops == InitSpecHops /\ [][NextHops]_vars

\* The tree of a single BiSBiS parsed by one NFFGConverter.
SpecSbb == InitSpecSbb /\ [][NextSbb]_vars

\* A flow table with external references at hand.
InitSpecXp == InitTag /\ InitNsDefault /\ InitFc /\ InitRt /\ InitSb /\ InitSr
  /\ InitXpTree /\ InitSm /\ InitVp

SpecXp == InitSpecXp /\ [][NextXp]_vars

\* The connector at work.
InitSpecSm == InitTag /\ InitNsDefault /\ InitFc /\ InitRt /\ InitSb /\ InitSr
  /\ InitXp /\ InitSmRun /\ InitVp

SpecSm == InitSpecSm /\ [][NextSm]_vars

\* A port-abstract port at hand.
InitSpecVp == InitTag /\ InitNsDefault /\ InitFc /\ InitRt /\ InitSb /\ InitSr
  /\ InitXp /\ InitSm /\ InitVpPort

SpecVp == InitSpecVp /\ [][NextVp]_vars

(***************************************************************************)
(* Namespace Manager: properties                                           *)
(***************************************************************************)

\* C9: recreate_bb_id(_gen_unique_bb_id(node)) is the node's id when
\* unique-id mode is enabled, and both functions are the identity when it
\* is disabled.
C9_BbRoundTrip ==
  (nsop.pc = "back" /\ nsop.kind = "bb") =>
    /\ nsop.back = nsop.id
    /\ ~conv.unique_bb_id => nsop.gen = nsop.id

HasDelimiter(s) == Contains(s, UNIQUE_ID_DELIMITER)

\* C10 as stated: recreate_nf_id(_gen_unique_nf_id(nf, bb_id)) is the NF's
\* id when unique NF-id mode is enabled, whatever the infra id and the NF
\* id are; both functions are the identity when the mode is disabled.
C10_NfRoundTrip ==
  (nsop.pc = "back" /\ nsop.kind = "nf") =>
    /\ nsop.back = nsop.id
    /\ ~conv.unique_nf_id => nsop.gen = nsop.id

\* C10 amended: the same for NF ids that contain no '@'.
C10_NfRoundTripNoDelimiter ==
  (nsop.pc = "back" /\ nsop.kind = "nf" /\ ~HasDelimiter(nsop.id)) =>
    /\ nsop.back = nsop.id
    /\ ~conv.unique_nf_id => nsop.gen = nsop.id

\* An NF id was made unique with a domain-qualified infra id and turned
\* back.
C10_Witness ==
  /\ nsop.pc = "back" /\ nsop.kind = "nf" /\ conv.unique_nf_id
  /\ ~HasDelimiter(nsop.id)
  /\ nsop.bb # NoneS /\ HasDelimiter(nsop.bb)
  /\ nsop.gen # nsop.id

\* C11: once disable_unique_bb_id was called, whenever that was, the node
\* ids generated before it in unique mode are recreated character for
\* character, the node ids generated after it are the raw ids, and the NF-id
\* mode is the one the converter was constructed with.
C11_DisableKeepsIds ==
  life.disabled =>
    /\ ~conv.unique_bb_id
    /\ conv.unique_nf_id = life.nf_mode
    /\ (nsop.kind = "bb" /\ nsop.pc = "back" /\ life.back_after) =>
         nsop.back = nsop.gen
    /\ (nsop.kind = "bb" /\ nsop.pc # "idle" /\ life.gen_after) =>
         nsop.gen = nsop.id
    /\ (nsop.kind = "nf" /\ nsop.pc # "idle" /\ life.gen_after) =>
         IF life.nf_mode
           THEN StartsWith(nsop.gen, nsop.id \o <<UNIQUE_ID_DELIMITER>>)
           ELSE nsop.gen = nsop.id

\* A node id that got its domain in unique mode was recreated, as it was,
\* after the mode was disabled on a converter with unique NF ids.
C11_Witness ==
  /\ life.disabled /\ life.gen_unique /\ ~life.gen_after /\ life.back_after
  /\ life.nf_mode /\ conv.unique_nf_id
  /\ nsop.kind = "bb" /\ nsop.pc = "back"
  /\ nsop.gen # nsop.id /\ nsop.back = nsop.gen

(***************************************************************************)
(* Flow Codec: properties                                                  *)
(***************************************************************************)

\* The key of a token.
TokenKey(tok) == Split1(tok, KV_DELIMITER)[1]

\* The number that ends the labels of a TAG token.
TagNumber(tok) == PyInt(Last(Split(Split1(tok, KV_DELIMITER)[2],
                                   LABEL_DELIMITER)))

\* The values of the tokens of a field that have the given key.
ValuesOf(field, key) ==
  LET toks == SelectSeq(Split(field, OP_DELIMITER),
                        LAMBDA tok : TokenKey(tok) = key
                                     /\ Len(Split1(tok, KV_DELIMITER)) = 2)
  IN [i \in 1..Len(toks) |-> Split1(toks[i], KV_DELIMITER)[2]]

\* The VLAN numbers of the TAG tokens of a field.
TagNumbers(field) ==
  LET toks == SelectSeq(Split(field, OP_DELIMITER),
                        LAMBDA tok : TokenKey(tok) = OP_TAG
                                     /\ Len(Split1(tok, KV_DELIMITER)) = 2)
  IN [i \in 1..Len(toks) |-> TagNumber(toks[i])]

\* The tokens of a field whose key is not one of the general operations.
ExplicitTokens(field) ==
  SelectSeq(Split(field, OP_DELIMITER),
            LAMBDA tok : TokenKey(tok) \notin GENERAL_OPERATIONS)

HasUntag(field) ==
  \E i \in 1..Len(Split(field, OP_DELIMITER)) :
    Split(field, OP_DELIMITER)[i] = OP_UNTAG

\* What an action says: output port, VLAN number to push, UNTAG flag and
\* explicit tokens.
ActionFields(action) ==
  [out |-> ValuesOf(action, OP_OUTPUT), push |-> TagNumbers(action),
   untag |-> HasUntag(action), explicit |-> ExplicitTokens(action)]

\* What a match says: in_port, VLAN number and flowclass.
MatchFields(match) ==
  [in_port |-> ValuesOf(match, OP_INPORT), vlan |-> TagNumbers(match),
   flowclass |-> ValuesOf(match, OP_FLOWCLASS)]

\* C6: a graph action built from output, TAG, UNTAG and explicit tokens is
\* written to a flow entry, and the action parsed back from that flow entry
\* has the same output port, the same VLAN number to push, the same UNTAG
\* flag and the same explicit tokens.
C6_ActionRoundTrip ==
  /\ fc.pc = "dumped" => fc.dump.status = "ok"
  /\ fc.pc = "parsed" =>
       /\ ~fc.back.raised
       /\ ActionFields(fc.back.action) = ActionFields(fc.rule.action)

\* An action that pushes VLAN 10, pops the tag and carries an explicit token
\* went to a flow entry and came back.
C6_Witness ==
  /\ fc.pc = "parsed"
  /\ ActionFields(fc.rule.action).push = <<[ok |-> TRUE, val |-> 10]>>
  /\ HasUntag(fc.rule.action)
  /\ Len(ExplicitTokens(fc.rule.action)) = 1
  /\ fc.dump.entry.action # fc.rule.action
  /\ Len(ValuesOf(fc.back.action, OP_OUTPUT)) = 1

\* C7: a graph match built from in_port, TAG and flowclass is written to a
\* flow entry, and the match parsed back from that flow entry has the same
\* in_port, the same VLAN number and the same flowclass value.
C7_MatchRoundTrip ==
  /\ fc.pc = "dumped" => fc.dump.status = "ok"
  /\ fc.pc = "parsed" =>
       /\ ~fc.back.raised
       /\ MatchFields(fc.back.match) = MatchFields(fc.rule.match)

\* A match on an NF port with VLAN 10 and a flowclass went to a flow entry
\* and came back.
C7_Witness ==
  /\ fc.pc = "parsed"
  /\ ExplicitTokens(fc.rule.match) = <<>>
  /\ MatchFields(fc.rule.match).vlan = <<[ok |-> TRUE, val |-> 10]>>
  /\ Len(MatchFields(fc.rule.match).flowclass) = 1
  /\ fc.dump.entry.port.nf # NoneS
  /\ Truthy(fc.dump.entry.match)
  /\ Len(ValuesOf(fc.back.match, OP_INPORT)) = 1

HasUnknownKey(field) == ExplicitTokens(field) # <<>>

\* The tokens of a field whose key is one of the general operations.
GeneralTokens(field) ==
  SelectSeq(Split(field, OP_DELIMITER),
            LAMBDA tok : TokenKey(tok) \in GENERAL_OPERATIONS)

\* _convert_flowrule_match skips the tokens with an unrecognised key and
\* converts the other tokens; _convert_flowrule_action hands the tokens with
\* an unrecognised key on as they are; neither raises.
ConvertersTolerateUnknownKeys ==
  fc.pc # "idle" =>
    /\ fc.dump.status = "ok"
    /\ HasUnknownKey(fc.rule.match) =>
         fc.dump.entry.match =
           Join(Collect(GeneralTokens(fc.rule.match), MatchToken).ret,
                OP_DELIMITER)
    /\ HasUnknownKey(fc.rule.action) =>
         SelectSeq(Split(fc.dump.entry.action, OP_DELIMITER),
                   LAMBDA tok : tok \in Range(ExplicitTokens(fc.rule.action)))
           = ExplicitTokens(fc.rule.action)

\* The field that field_splitter was applied to.
SplitInput == IF fc.split.type = TYPE_MATCH THEN fc.rule.match
              ELSE fc.rule.action

RECURSIVE SumOver(_, _)
SumOver(S, f) ==
  IF S = {} THEN 0
  ELSE LET x == CHOOSE y \in S : TRUE IN f[x] + SumOver(S \ {x}, f)

\* The infra nodes, their ports, the links (each SAP hangs on a pair of
\* links) and the flow rules of a graph.
NumInfras(g) == Cardinality(DOMAIN g.infras)

NumPorts(g) ==
  SumOver(DOMAIN g.infras,
          [n \in DOMAIN g.infras |-> Cardinality(g.infras[n].ports)])

NumLinks(g) == Cardinality(g.links) + 2 * Cardinality(g.saps)

NumFlowrules(g) == Len(g.flowrules)

SameCounts(g, h) ==
  /\ NumInfras(g) = NumInfras(h)
  /\ NumPorts(g) = NumPorts(h)
  /\ NumLinks(g) = NumLinks(h)
  /\ NumFlowrules(g) = NumFlowrules(h)

\* The resources of the infra nodes, of the links between infra nodes and
\* of the ports towards the SAPs.
SameNodeResources(g, h) ==
  /\ DOMAIN g.infras = DOMAIN h.infras
  /\ \A n \in DOMAIN g.infras :
       /\ g.infras[n].cpu = h.infras[n].cpu
       /\ g.infras[n].mem = h.infras[n].mem
       /\ g.infras[n].storage = h.infras[n].storage
       /\ g.infras[n].delay = h.infras[n].delay
       /\ g.infras[n].bandwidth = h.infras[n].bandwidth
  /\ \A l \in g.links : \E k \in h.links :
       k.id = l.id /\ k.delay = l.delay /\ k.bandwidth = l.bandwidth
  /\ \A sp \in g.saps : \E sq \in h.saps :
       /\ sq.infra = sp.infra /\ sq.infra_port = sp.infra_port
       /\ sq.delay = sp.delay /\ sq.bandwidth = sp.bandwidth

\* The links between the SAPs and the infra nodes carry the resources of the
\* port towards the SAP.
SapLinksFollowPort(g, h) ==
  \A sp \in g.saps : \E sq \in h.saps :
    /\ sq.infra = sp.infra /\ sq.infra_port = sp.infra_port
    /\ sq.link_delay = sp.delay
    /\ sq.link_bandwidth = sp.bandwidth

\* A requirement with a delay (bandwidth) leads over the flow rule.
OnDelayPath(g, fr) ==
  \E i \in DOMAIN g.reqs :
    /\ g.reqs[i].delay # NoVal
    /\ g.reqs[i].src_node = fr.infra
    /\ \E j \in DOMAIN g.reqs[i].sg_path : g.reqs[i].sg_path[j] = fr.id

OnBandwidthPath(g, fr) ==
  \E i \in DOMAIN g.reqs :
    /\ g.reqs[i].bandwidth # NoVal
    /\ g.reqs[i].src_node = fr.infra
    /\ \E j \in DOMAIN g.reqs[i].sg_path : g.reqs[i].sg_path[j] = fr.id

FlowruleOf(h, fr) ==
  { h.flowrules[i] : i \in { j \in DOMAIN h.flowrules :
      h.flowrules[j].infra = fr.infra /\ h.flowrules[j].id = fr.id } }

SameFlowruleResources(g, h) ==
  \A i \in DOMAIN g.flowrules :
    LET fr == g.flowrules[i] IN
      /\ FlowruleOf(h, fr) # {}
      /\ \A back \in FlowruleOf(h, fr) :
           back.delay = fr.delay /\ back.bandwidth = fr.bandwidth

FlowruleResourcesOffPaths(g, h) ==
  \A i \in DOMAIN g.flowrules :
    LET fr == g.flowrules[i] IN
      /\ FlowruleOf(h, fr) # {}
      /\ \A back \in FlowruleOf(h, fr) :
           /\ back.delay = IF OnDelayPath(g, fr) THEN NoVal ELSE fr.delay
           /\ back.bandwidth =
                IF OnBandwidthPath(g, fr) THEN NoVal ELSE fr.bandwidth

\* The requirements come back with their delay, bandwidth and path.
SameRequirements(g, h) ==
  /\ Len(g.reqs) = Len(h.reqs)
  /\ \A i \in DOMAIN g.reqs :
       /\ h.reqs[i].delay = g.reqs[i].delay
       /\ h.reqs[i].bandwidth = g.reqs[i].bandwidth
       /\ h.reqs[i].sg_path = g.reqs[i].sg_path
       /\ h.reqs[i].src_node = g.reqs[i].src_node
       /\ h.reqs[i].src_port = g.reqs[i].src_port
       /\ h.reqs[i].dst_port = g.reqs[i].dst_port

RuleOf(g, infra_id, id) ==
  g.flowrules[CHOOSE k \in DOMAIN g.flowrules :
                g.flowrules[k].infra = infra_id /\ g.flowrules[k].id = id]

\* C12: a Requirement with a delay and an ordered sg_path of flow-rule ids
\* on one infra node, dumped as a formula and parsed back, gives a
\* Requirement with that delay, that sg_path in that order, the in_port of
\* the first rule as its src port and the output of the last rule as its dst
\* port.
C12_RequirementRoundTrip ==
  rt.pc = "parsed" =>
    \A i \in DOMAIN rt.graph.reqs :
      LET req == rt.graph.reqs[i] IN
        (req.delay # NoVal /\ req.src_node = req.dst_node) =>
          \E j \in DOMAIN rt.back.reqs :
            LET back == rt.back.reqs[j] IN
              /\ back.delay = req.delay
              /\ back.sg_path = req.sg_path
              /\ back.src_node = req.src_node
              /\ back.dst_node = req.src_node
              /\ back.src_port =
                   InportOfFlowrule(RuleOf(rt.graph, req.src_node,
                                           req.sg_path[1]))
              /\ back.dst_port =
                   OutputPortOfFlowrule(RuleOf(rt.graph, req.src_node,
                                               Last(req.sg_path)))

\* A Requirement with a delay over two flow rules, the one with the larger
\* id first, came back, and its formula was taken from the infra.
C12_Witness ==
  /\ rt.pc = "parsed"
  /\ Len(rt.graph.reqs) = 1 /\ Len(rt.back.reqs) = 1
  /\ rt.graph.reqs[1].delay = Num(60)
  /\ rt.graph.reqs[1].sg_path = <<2, 1>>
  /\ rt.back.reqs[1].delay = Num(60)
  /\ rt.back.reqs[1].sg_path = <<2, 1>>
  /\ rt.tree.nodes[BB_ID].constraints # <<>>
  /\ rt.back.infras[BB_ID].constraints = <<>>

(***************************************************************************)
(* Properties of the Reconstructor                                         *)
(***************************************************************************)

\* The SG hops with the id of the flow rule.
HopsOf(hops, flowrule) ==
  {k \in 1..Len(hops) : hops[k].id = flowrule.id}

\* The flow rule can be turned into a hop: its match has an in_port token,
\* its action has an output token, and each of the two ports has exactly
\* one edge that leaves the infra.
CanHop(g, flowrule) ==
  LET in_port == TokenOf(flowrule.match, OP_INPORT)
      output == TokenOf(flowrule.action, OP_OUTPUT)
  IN /\ in_port.found /\ ~in_port.raised
     /\ output.found /\ ~output.raised
     /\ Cardinality(OppositeNode(g, in_port.val)) = 1
     /\ Cardinality(OppositeNode(g, output.val)) = 1

EdgesAt(g, text) == {l \in g.edges : l.src.text = text}

\* C13: on a single-infra-node graph every flow rule whose in_port and
\* whose output each connect, over an edge leaving the infra, to exactly one
\* NF or SAP port gives exactly one SG hop, with the id of the rule, those
\* two opposite ports as src and dst and the delay, bandwidth and
\* constraints of the rule; for integer port ids as for textual ones.
C13_OneHopPerRule ==
  (sb.pc = "parsed" /\ sb.create_sg_hops) =>
    \A k \in 1..Len(sb.graph.flowrules) :
      LET flowrule == sb.graph.flowrules[k]
          src == EdgesAt(sb.graph, TokenOf(flowrule.match, OP_INPORT).val)
          dst == EdgesAt(sb.graph, TokenOf(flowrule.action, OP_OUTPUT).val)
      IN (Cardinality(src) = 1 /\ Cardinality(dst) = 1) =>
           /\ Cardinality(HopsOf(sb.hops, flowrule)) = 1
           /\ \A h \in HopsOf(sb.hops, flowrule) :
                /\ \E l \in src : sb.hops[h].src = l.dst
                /\ \E l \in dst : sb.hops[h].dst = l.dst
                /\ sb.hops[h].delay = flowrule.delay
                /\ sb.hops[h].bandwidth = flowrule.bandwidth
                /\ sb.hops[h].constraints = flowrule.constraints

\* The in-port reference of a flow entry cannot be resolved to a port of the
\* graph: a leafref without target, a port that was not created on the
\* infra, or the port of an NF without dynamic link.
Unresolved(t, fe) ==
  \/ ~fe.port.target
  \/ /\ fe.port.nf = NoneS
     /\ \E i \in 1..Len(t.ports) :
          t.ports[i].id = fe.port.id /\ t.ports[i].port_type \notin PortTypes
  \/ fe.port.nf # NoneS /\ fe.port.nf \notin t.nfs

\* C14: a flow entry whose in-port reference cannot be resolved gives no
\* flow rule, and the parse completes with every other flow entry of the
\* node converted.
C14_UnresolvedInportDropped ==
  sb.pc \in {"parsed", "aborted"} =>
    /\ ~sb.raised
    /\ \A k \in 1..Len(sb.tree.flowtable) :
         LET fe == sb.tree.flowtable[k]
         IN (\E j \in 1..Len(sb.graph.flowrules) :
               sb.graph.flowrules[j].id = PyInt(fe.id).val)
            <=> ~Unresolved(sb.tree, fe)

(***************************************************************************)
(* Converter: properties of the resource values                            *)
(***************************************************************************)

\* The value that the parse keeps for a text that is no number.
KeptRaw(text, value) == NonNumeric(text) => value = Raw(text)

\* C15: the parse of a tree never aborts because of a resource value that
\* is no number: the cpu, mem, storage, bandwidth and delay of a node, the
\* delay and bandwidth of the links inside a node and between nodes, of
\* the flow entries and of the ports are kept as the raw string.
C15_NonNumericKept ==
  (rt.pc = "parsed" /\ rt.graph = NoGraph) =>
    LET v_node == rt.tree.nodes[BB_ID]
        infra == rt.back.infras[BB_ID]
    IN /\ ~rt.back.raised
       /\ KeptRaw(v_node.cpu, infra.cpu)
       /\ KeptRaw(v_node.metadata.delay, infra.delay)
       /\ \A sap \in rt.back.saps :
            sap.infra_port = <<"2">> =>
              KeptRaw(v_node.ports[<<"2">>].delay, sap.delay)
       /\ KeptRaw(v_node.flowtable[1].bandwidth, rt.back.flowrules[1].bandwidth)
       /\ \A vlink \in rt.tree.links : \A link \in rt.back.links :
            link.id = vlink.id => KeptRaw(vlink.delay, link.delay)

(***************************************************************************)
(* Service requests: properties                                            *)
(***************************************************************************)

\* C16: convert_service_request_init, convert_service_request_del and
\* adapt_mapping_into_Virtualizer leave the base tree that they receive as
\* it was before the call, and the tree that they return is another tree
\* than the base.
C16_BaseUnchanged ==
  (sr.pc = "done" /\ sr.op \in {"init", "del", "adapt"} /\ sr.given) =>
    /\ sr.heap[sr.base] = sr.old
    /\ ~sr.raised => sr.ret \in (1..Len(sr.heap)) \ {sr.base}

C16_Witness ==
  /\ sr.pc = "done" /\ sr.op = "init" /\ sr.given /\ ~sr.raised
  /\ sr.heap[sr.ret].nfs # sr.old.nfs
  /\ sr.heap[sr.ret].id # sr.old.id

\* The request names nothing that the conversion adds to the tree.
AddsNothing(request) ==
  /\ request.nfs = {} /\ request.sg_hops = {}
  /\ ReqConstraints(request) = {} /\ request.metadata = {}

\* The request names nothing that the deletion removes from the tree.
RemovesNothing(request, t) ==
  /\ request.nfs \cap t.nfs = {}
  /\ {hop.id : hop \in request.sg_hops} \cap t.flowtable = {}

\* The request adds the NF to the node of the tree and nothing else.
AddsOnlyNf(request, t, nf) ==
  /\ t.node /\ nf \notin t.nfs /\ request.nfs = {nf}
  /\ request.sg_hops = {} /\ ReqConstraints(request) = {}
  /\ request.metadata = {}

\* C17: the diff that _convert_service_request returns names no change of
\* id or name; it is the empty fragment for a request that adds or removes
\* nothing, and it holds the NF alone for a request that adds exactly one
\* NF.
C17_DiffOfContent ==
  (sr.pc = "done" /\ sr.op = "connector" /\ sr.given /\ ~sr.raised) =>
    /\ sr.frag.id = NoneS /\ sr.frag.name = NoneS
    /\ (~sr.delete /\ AddsNothing(sr.request)) => sr.frag = EmptyFragment
    /\ (sr.delete /\ RemovesNothing(sr.request, sr.old))
         => sr.frag = EmptyFragment
    /\ \A nf \in {NF1, NF2} :
         (~sr.delete /\ AddsOnlyNf(sr.request, sr.old, nf))
           => sr.frag = [EmptyFragment EXCEPT !.nfs_added = {nf}]

C17_Witness ==
  /\ sr.pc = "done" /\ sr.op = "connector" /\ sr.given /\ ~sr.raised
  /\ ~sr.delete /\ AddsOnlyNf(sr.request, sr.old, NF2)
  /\ ~sr.old.relative /\ sr.old.flowtable # {}
  /\ sr.old.id # sr.request.id
  /\ sr.frag.nfs_added = {NF2}

\* The match tokens that are no in_port, TAG or UNTAG token, a flowclass
\* token without its key.
RemainingTokens(match) ==
  LET items == SelectSeq(Split(match, OP_DELIMITER),
                 LAMBDA item : /\ ~StartsWith(item, OP_INPORT)
                               /\ ~StartsWith(item, OP_TAG)
                               /\ ~StartsWith(item, OP_UNTAG))
  IN { IF StartsWith(items[i], OP_FLOWCLASS \o <<KV_DELIMITER>>)
         THEN SubSeq(items[i], Len(OP_FLOWCLASS) + 2, Len(items[i]))
       ELSE items[i] : i \in 1..Len(items) }

\* C21: the flowclass of a reconstructed SG hop contains every match token
\* of its flow rule that is no in_port, TAG or UNTAG token; with several
\* such tokens in the match none of them is lost.
C21_FlowclassKeepsAll ==
  (sb.pc = "hops" /\ sb.graph.is_SBB) =>
    \A k \in 1..Len(sb.graph.flowrules) :
      LET flowrule == sb.graph.flowrules[k]
      IN \A h \in HopsOf(sb.hops, flowrule) :
           \A token \in RemainingTokens(flowrule.match) :
             HasInfix(sb.hops[h].flowclass, token)

\* C28: for a base tree with one infra node and a request whose NF ids
\* and SG hop ids do not occur in the base, the deletion of the request from
\* the tree that convert_service_request_init returned has exactly the NF
\* instances and the flow entries of the base; and the deletion alone skips
\* a request NF or hop that the base does not have and removes nothing
\* else.
C28_DelUndoesInit ==
  /\ (sr.pc = "done" /\ sr.op = "init_del" /\ sr.old.node /\ ~sr.raised
      /\ RemovesNothing(sr.request, sr.old)) =>
       /\ sr.heap[sr.ret].nfs = sr.old.nfs
       /\ sr.heap[sr.ret].flowtable = sr.old.flowtable
  /\ (sr.pc = "done" /\ sr.op = "del" /\ sr.old.node) =>
       /\ ~sr.raised
       /\ sr.heap[sr.ret].nfs = sr.old.nfs \ sr.request.nfs
       /\ sr.heap[sr.ret].flowtable =
            sr.old.flowtable \ {hop.id : hop \in sr.request.sg_hops}

\* The base has the NF n1 and the flow entry 1, the request adds the NF n2
\* and the hop 2, and both are gone after the deletion.
C28_Witness ==
  /\ sr.pc = "done" /\ sr.op = "init_del" /\ ~sr.raised
  /\ sr.old.node /\ sr.old.nfs = {NF1} /\ sr.old.flowtable = {Hop1.id}
  /\ sr.request.nfs = {NF2} /\ sr.request.sg_hops = {Hop2}
  /\ sr.heap[sr.ret].nfs = {NF1}
  /\ sr.heap[sr.ret].flowtable = {Hop1.id}

(***************************************************************************)
(* Properties of the external ports                                        *)
(***************************************************************************)

\* The external port ids that the flow entries refer to, and those whose
\* reference the loop comes to: the entry has its port attribute, and an
\* out port is looked at only after an in port that is external or has its
\* target.
XpReferenced(flowtable) ==
  { ParseExternalPort(ref.text).port :
      ref \in { r \in UNION { {flowtable[k].port, flowtable[k].out} :
                              k \in 1..Len(flowtable) } :
                IsExternal(r.text) } }

XpReached(flowtable) ==
  { ParseExternalPort(fe.port.text).port :
      fe \in { e \in Range(flowtable) : IsExternal(e.port.text) } }
  \cup { ParseExternalPort(fe.out.text).port :
           fe \in { e \in Range(flowtable) :
                      /\ IsExternal(e.out.text)
                      /\ e.port.text # NoneS
                      /\ (IsExternal(e.port.text) \/ e.port.target) } }

\* The number of infra ports, SAPs with their port and links of the
\* external port id is n.
XpRepresented(g, ext_port, n) ==
  LET id == ExternalId(ext_port)
  IN /\ Cardinality({i \in 1..Len(g.ports) : g.ports[i].id = StrId(id)}) = n
     /\ Cardinality({sap \in g.saps : sap = id}) = n
     /\ Cardinality({i \in 1..Len(g.sap_ports) :
                       g.sap_ports[i].node = id /\ g.sap_ports[i].id = id})
          = n
     /\ Cardinality({i \in 1..Len(g.links) :
                       g.links[i].src = StrId(id) /\ g.links[i].dst = id})
          = n

\* Every flow rule of an entry with an external reference is flagged
\* external.
XpFlagged ==
  \A i \in 1..Len(xp.graph.flowrules) :
    \A k \in 1..Len(xp.flowtable) :
      (PyInt(xp.flowtable[k].id).val = xp.graph.flowrules[i].id
       /\ (IsExternal(xp.flowtable[k].port.text)
           \/ IsExternal(xp.flowtable[k].out.text)))
        => xp.graph.flowrules[i].external

\* C22 as stated: after the parse of any sequence of flow entries each
\* external port id that an entry refers to, as in port, as out port or as
\* both, any number of times, has exactly one infra port EXTERNAL:P and
\* exactly one SAP EXTERNAL:P joined by one link pair, and every flow rule
\* of such an entry is flagged external.
C22_EveryReferenceRepresented ==
  xp.pc = "parsed" =>
    /\ \A ext_port \in XpReferenced(xp.flowtable) :
         XpRepresented(xp.graph, ext_port, 1)
    /\ XpFlagged

\* C22, amended: each external port id that the loop over the flow entries
\* comes to (the in port of an entry, or the out port of an entry whose in
\* port is present and is external or has its target) has exactly one infra
\* port EXTERNAL:P and exactly one SAP EXTERNAL:P joined by one link pair,
\* and every flow rule of an entry with an external reference is flagged
\* external.
C22_ExternalOnce ==
  xp.pc = "parsed" =>
    /\ \A ext_port \in XpReached(xp.flowtable) :
         XpRepresented(xp.graph, ext_port, 1)
    /\ XpFlagged

\* The port 7 is referred to by two domains, as in port and as out port of
\* two entries, and both entries gave a flow rule.
C22_Witness ==
  /\ xp.pc = "parsed"
  /\ Len(xp.flowtable) = 2
  /\ xp.flowtable[1].port.text = EXT_D_N_7
  /\ xp.flowtable[1].out.text = EXT_D_N_7
  /\ xp.flowtable[2].port.text = EXT_E_M_7
  /\ xp.flowtable[2].out.text = EXT_D_N_7
  /\ Len(xp.graph.flowrules) = 2

(***************************************************************************)
(* Properties of the connector and the ServiceManager                      *)
(***************************************************************************)

\* C23: when initiate_service returns for an instance that was created and
\* stored, the status of the instance is start if the RO accepted the
\* request and error_creating after every other outcome; it is never left
\* in init.
C23_StartIffAccepted ==
  (sm.resp.op = "initiate_service" /\ sm.resp.id \in sm.m.instances) =>
    sm.m.objs[sm.resp.id].status =
      IF sm.resp.ro = "accepted" THEN STATUS_START ELSE STATUS_ERROR

\* C24: terminate_service sends a delete request to the RO only for an
\* instance whose status is start; an instance in any other status is
\* removed from the ServiceManager without a request to the RO and answered
\* with 200 and the status stopped; an unknown id is answered with 404 and
\* changes nothing.
C24_DeleteOnlyRunning ==
  sm.resp.op = "terminate_service" =>
    /\ "delete" \in sm.resp.sent => sm.resp.before = STATUS_START
    /\ sm.resp.before \in {STATUS_INIT, STATUS_ERROR, STATUS_STOPPED} =>
         /\ sm.resp.sent = {}
         /\ sm.resp.id \notin sm.m.instances
         /\ sm.m.instances = sm.resp.was.instances \ {sm.resp.id}
         /\ sm.resp.code = 200
         /\ sm.resp.body.status = STATUS_STOPPED
    /\ sm.resp.before = "none" =>
         /\ sm.resp.code = 404
         /\ sm.resp.sent = {}
         /\ sm.m = sm.resp.was

\* An instance that the RO refused is terminated: it is removed without a
\* request to the RO.
C24_Witness ==
  /\ sm.resp.op = "terminate_service"
  /\ sm.resp.before = STATUS_ERROR
  /\ sm.resp.code = 200
  /\ sm.resp.id \notin sm.m.instances

\* C25: after terminate_service answers 200 for a running instance, the RO
\* having accepted the deletion with or without callbacks, the instance is
\* no longer managed: get_service returns nothing for its id and
\* get_services_status does not list it.
C25_TerminatedIsGone ==
  (sm.resp.op = "terminate_service" /\ sm.resp.code = 200
   /\ sm.resp.before = STATUS_START) =>
    /\ sm.resp.id \notin sm.m.instances
    /\ \A json \in GetServicesStatus(sm.m) : json.id # sm.resp.id

\* C26: every assignment to the status of a ServiceInstance sets its
\* updated_at to the time of the change, so the updated_at that get_json
\* reports is never older than the last change of the status, and it is a
\* timestamp from the creation on.
C26_UpdatedAtFollowsStatus ==
  \A id \in DOMAIN sm.m.objs :
    /\ GetJson(sm.m.objs[id]).updated_at >= sm.m.objs[id].changed_at
    /\ GetJson(sm.m.objs[id]).updated_at >= sm.m.objs[id].created_at

\* C27: after any sequence of instantiate_ns, set_service_status and
\* remove_service_instance calls every NF id of the VNF cache maps to the id
\* of an instance that is managed, so update_si_addresses_from_ro, run by
\* each GET /ns-instances, ends without an error for any topology.
C27_CacheOfManaged ==
  /\ \A pair \in sm.m.vnf_cache : pair[2] \in sm.m.instances
  /\ sm.resp.op = "list_service_instances" => ~sm.resp.raised

\* C29: register_nsd answers 202 only when the body was stored as an NSD
\* and converted to a service graph, 400 when the body cannot be stored and
\* 500 when the conversion fails, and in neither failure case it writes a
\* service graph file.
C29_AcceptedOnlyWhenConverted ==
  sm.resp.op = "register_nsd" =>
    /\ sm.resp.code = 202 <=> (sm.resp.stored /\ sm.resp.converted)
    /\ ~sm.resp.stored => sm.resp.code = 400
    /\ (sm.resp.stored /\ ~sm.resp.converted) => sm.resp.code = 500
    /\ sm.resp.code # 202 => sm.m.services = sm.resp.was.services

(***************************************************************************)
(* Properties of the port attributes                                       *)
(***************************************************************************)

\* C30: the parse of an abstract port copies each initialized attribute of
\* the tree port to the same attribute of the graph port, role to role,
\* technology to technology, controller to controller and orchestrator to
\* orchestrator, and it completes for every combination of initialized
\* attributes.
C30_AttrsCopied ==
  vp.pc \in {"parsed", "aborted"} =>
    /\ ~vp.raised
    /\ \A attr \in {"role", "technology", "controller", "orchestrator"} :
         vp.v_port[attr] # NoneS => vp.port.attrs[attr] = vp.v_port[attr]

=============================================================================
